---- MODULE Spec2Model ----
(***************************************************************************)
(* Semantic question retrieval of CampusMinus: the embedding provider,    *)
(* the questions table with its optional pgvector column, the question    *)
(* repository/service and the HTTP handlers that create, search and       *)
(* delete questions.  Every handler is a request that runs in a slot of   *)
(* `req`; a handler that issues several database statements is split at   *)
(* its awaits, so that the statements of concurrent requests interleave.  *)
(***************************************************************************)
EXTENDS Integers, Sequences, FiniteSets, TLC

\* ------------------------------------------------------------------ bounds
\* Question ids ever allocated (randomUUID is fresh on every create).
MaxQuestions == 2
\* Largest LIMIT a caller passes to a search.
MaxLimit == 1
\* The questions of the store the default limits are tried on.
SeededQuestions == 4
\* Answer ids ever allocated.
MaxAnswers == 2
\* Accounts created after the first two.
MaxSignups == 1

\* ------------------------------------------------------- program constants
\* EmbeddingService.dimensions / EMBEDDING_DIMENSIONS
dimensions == 768
\* QuestionRepository.searchByEmbedding(embedding, limit = 3)
DefaultLimit == 3
\* questions/search POST: const { query, limit = 5 } = body
RouteDefaultLimit == 5

Min(a, b) == IF a < b THEN a ELSE b

\* ------------------------------------------------------------------ strings
\* A string is the sequence of its code units (String.prototype.charCodeAt):
\* "a" is <<97>>, " a" is <<32, 97>>.  WhiteSpace holds what trim strips,
\* ECMAScript's WhiteSpace and LineTerminator: tab, line feed, vertical tab,
\* form feed, carriage return, space, no-break space (U+00A0), the other
\* space separators (U+1680, U+2000..U+200A, U+202F, U+205F, U+3000), the
\* line and paragraph separators (U+2028, U+2029) and the byte order mark
\* (U+FEFF).  U+0085, U+180E and U+200B are not among them.
WhiteSpace ==
    {9, 10, 11, 12, 13, 32, 160, 5760} \cup (8192..8202)
        \cup {8232, 8233, 8239, 8287, 12288, 65279}
IsSpace(c) == c \in WhiteSpace

RECURSIVE TrimLeft(_)
TrimLeft(s) == IF s # <<>> /\ IsSpace(Head(s)) THEN TrimLeft(Tail(s)) ELSE s

RECURSIVE TrimRight(_)
TrimRight(s) ==
    IF s # <<>> /\ IsSpace(s[Len(s)]) THEN TrimRight(SubSeq(s, 1, Len(s) - 1)) ELSE s

\* String.prototype.trim
trim(s) == TrimRight(TrimLeft(s))

\* JavaScript truthiness of a string: only "" is falsy.
Truthy(s) == s # <<>>

\* `${title.trim()} ${description.trim()}`
embeddingText(title, description) == trim(title) \o <<32>> \o trim(description)

\* ------------------------------------------------------------------ vectors
\* A vector (a number[]) is written by its length and its first two
\* components; every further component is 0.  Vec(a, b, n) is the array
\* [a, b, 0, ..., 0] of n >= 2 numbers, EmptyVec the array [].
Vec(a, b, n) == [dim |-> n, a |-> a, b |-> b]
EmptyVec == [dim |-> 0, a |-> 0, b |-> 0]

\* Array.prototype.length
Length(v) == v.dim

VecA == Vec(1, 0, dimensions)
VecB == Vec(0, 1, dimensions)
VecLong == Vec(0, 1, dimensions + 1)
VecShort == Vec(1, 0, dimensions - 1)

\* Array.prototype.slice(0, n)
slice(v, n) ==
    [dim |-> Min(v.dim, n),
     a |-> IF n >= 1 THEN v.a ELSE 0,
     b |-> IF n >= 2 THEN v.b ELSE 0]

\* pgvector's <-> operator is the L2 distance; its square orders alike.
\* The components past the second are 0 on both sides.
L2Squared(x, y) == (x.a - y.a) * (x.a - y.a) + (x.b - y.b) * (x.b - y.b)

\* ------------------------------------------------------- embedding provider
\* What the remote embedding model answers to one embedContent call:
\*   network_error  fetch rejects
\*   not_ok         a non-2xx status
\*   no_field       2xx, the JSON body has no `embedding`
\*   non_array      2xx, `embedding` (or `embedding.values`) is no array
\*   direct         2xx, `embedding` is itself the array `values`
\*   nested         2xx, `embedding.values` is the array `values`
\*   nested_text    2xx, `embedding.values` is an array of as many components
\*                  as `values`, one of which is a string
Resp(kind, values) == [kind |-> kind, values |-> values]

ProviderVectors == {VecA, VecB, VecLong, VecShort, EmptyVec}

ProviderResponses ==
    {Resp(k, EmptyVec) : k \in {"network_error", "not_ok", "no_field", "non_array"}}
        \cup {Resp("direct", VecA)}
        \cup {Resp("nested", v) : v \in ProviderVectors}

\* The result of an embedding attempt: a vector, or the error it failed with;
\* calls counts the outbound requests to the model.
EmbedOk(v) == [ok |-> TRUE, error |-> "none", value |-> v, calls |-> 1]
EmbedErr(e, n) == [ok |-> FALSE, error |-> e, value |-> EmptyVec, calls |-> n]

\* `data.embedding?.values || data.embedding` followed by
\* `!embedding || !Array.isArray(embedding)`: an array has a (function-valued)
\* property `values`, so an array sent directly under `embedding` is read as
\* that function and rejected; only `embedding.values` yields a vector.
\* The components are not looked at.
ParsesAsVector(resp) == resp.kind \in {"nested", "nested_text"}

\* Fault: generateEmbedding finding the key missing only after its request
\* to the model has been sent.
CallBeforeKeyCheck(key, text, resp) ==
    IF ~key THEN EmbedErr("NotConfigured", 1)
    ELSE IF ~Truthy(text) \/ ~Truthy(trim(text)) THEN EmbedErr("InvalidInput", 0)
    ELSE IF resp.kind = "network_error" THEN EmbedErr("NetworkError", 1)
    ELSE IF resp.kind = "not_ok" THEN EmbedErr("UpstreamError", 1)
    ELSE IF ~ParsesAsVector(resp) THEN EmbedErr("MalformedResponse", 1)
    ELSE IF Length(resp.values) # dimensions THEN EmbedOk(slice(resp.values, dimensions))
    ELSE EmbedOk(resp.values)

\* EmbeddingService.generateEmbedding(text)
generateEmbedding(key, text, resp) ==
    IF ~key THEN EmbedErr("NotConfigured", 0)
    ELSE IF ~Truthy(text) \/ ~Truthy(trim(text)) THEN EmbedErr("InvalidInput", 0)
    ELSE IF resp.kind = "network_error" THEN EmbedErr("NetworkError", 1)
    ELSE IF resp.kind = "not_ok" THEN EmbedErr("UpstreamError", 1)
    ELSE IF ~ParsesAsVector(resp) THEN EmbedErr("MalformedResponse", 1)
    ELSE IF Length(resp.values) # dimensions THEN EmbedOk(slice(resp.values, dimensions))
    ELSE EmbedOk(resp.values)

\* POST /api/ai/embeddings (REST variant): the HTTP response the question
\* routes read; ok is `response.ok`, value the `embedding` field of the body.
EmbeddingsRoute(key, text, resp) ==
    IF ~key THEN EmbedErr("NotConfigured", 0)
    ELSE IF ~Truthy(text) \/ ~Truthy(trim(text)) THEN EmbedErr("InvalidInput", 0)
    ELSE IF resp.kind = "network_error" THEN EmbedErr("NetworkError", 1)
    ELSE IF resp.kind = "not_ok" THEN EmbedErr("UpstreamError", 1)
    ELSE IF ~ParsesAsVector(resp) THEN EmbedErr("MalformedResponse", 1)
    ELSE EmbedOk(slice(resp.values, dimensions))

\* The SDK's embedContent resolves with the parsed body of a 2xx answer and
\* rejects otherwise.  The route takes `result.embedding` when it is an array
\* and `result.embedding.values` when that is set; with neither it goes on to
\* the REST request.
SdkYieldsArray(sdk) == sdk.kind \in {"direct", "nested", "nested_text"}
NeedsFallback(sdk) == sdk.kind \in {"no_field", "non_array"}

\* POST /api/ai/embeddings (SDK variant): sdk is the answer to
\* model.embedContent, resp the answer to the REST request made when the SDK
\* gave no array.
EmbeddingsRouteSdk(key, text, sdk, resp) ==
    IF ~key THEN EmbedErr("NotConfigured", 0)
    ELSE IF ~Truthy(text) \/ ~Truthy(trim(text)) THEN EmbedErr("InvalidInput", 0)
    ELSE IF sdk.kind = "network_error" THEN EmbedErr("NetworkError", 1)
    ELSE IF sdk.kind = "not_ok" THEN EmbedErr("UpstreamError", 1)
    ELSE IF SdkYieldsArray(sdk) THEN EmbedOk(slice(sdk.values, dimensions))
    ELSE IF resp.kind = "network_error" THEN EmbedErr("NetworkError", 2)
    ELSE IF resp.kind = "not_ok" \/ ~ParsesAsVector(resp)
    THEN EmbedErr("MalformedResponse", 2)
    ELSE [EmbedOk(slice(resp.values, dimensions)) EXCEPT !.calls = 2]

ProviderErrors ==
    {"NotConfigured", "InvalidInput", "NetworkError", "UpstreamError", "MalformedResponse"}

\* An embedding attempt reaches its fetch only past the key and input checks;
\* the model answers only a request that is made.
ReachesProvider(key, text) == key /\ Truthy(text) /\ Truthy(trim(text))
NoResponse == Resp("none", EmptyVec)
ResponsesTo(key, text) ==
    IF ReachesProvider(key, text) THEN ProviderResponses ELSE {NoResponse}

\* The answers tried on a direct embedding request: those above, and an
\* array with a component that is not a number.
NonNumericResponse == Resp("nested_text", VecA)
EmbedResponsesTo(key, text) ==
    IF ReachesProvider(key, text)
    THEN ProviderResponses \cup {NonNumericResponse} ELSE {NoResponse}

\* ------------------------------------------------------------ the database
\* The words of a database error's message that the repository looks for.
\*   42703  column "embedding" of relation "questions" does not exist
\*   23503  insert or update on table "questions" violates foreign key constraint
\*   22000  expected 768 dimensions, not n / different vector dimensions
\*   P2025  record to update or delete not found
ErrorMessage(err) ==
    IF err = "42703" THEN {"column", "embedding", "42703"}
    ELSE IF err = "23503" THEN {"foreign key", "23503"}
    ELSE IF err = "22000" THEN {"dimensions"}
    ELSE {err}

\* Fault: a catch block that retries after every failure of the INSERT.
AnyInsertError(err) == err # "none"

\* Fault: a catch block that recognises only a missing vector type.
MentionsVectorType(err) == "vector" \in ErrorMessage(err)

\* errorMessage.includes('embedding') || .includes('column') || .includes('42703')
IsMissingColumnError(err) ==
    \E w \in {"embedding", "column", "42703"} : w \in ErrorMessage(err)

\* The embedding column, once migrated in, is vector(768).
EmbeddingColumnAccepts(v) == Length(v) = dimensions

\* INSERT INTO questions (..., embedding, ...) VALUES (..., $v::vector, ...):
\* the target columns are resolved first, then the row is built (the cast to
\* the column's type), then the foreign key on "userId" is checked.
InsertWithEmbeddingError(hasColumn, liveUsers, userId, v) ==
    IF ~hasColumn THEN "42703"
    ELSE IF ~EmbeddingColumnAccepts(v) THEN "22000"
    ELSE IF userId \notin liveUsers THEN "23503"
    ELSE "none"

\* INSERT INTO questions (...) VALUES (...) without the embedding column.
InsertPlainError(liveUsers, userId) ==
    IF userId \notin liveUsers THEN "23503" ELSE "none"

\* The row an INSERT writes: title, type and description are trimmed.
NewRow(title, type, description, userId) ==
    [title |-> trim(title), type |-> trim(type),
     description |-> trim(description), userId |-> userId]

\* Extend / restrict a table (a function from ids to cells).
Put(table, id, cell) == [i \in DOMAIN table \cup {id} |-> IF i = id THEN cell ELSE table[i]]
Drop(table, id) == [i \in DOMAIN table \ {id} |-> table[i]]

\* The table answers is created by no migration of the repository, so that
\* what ties its "questionId" and "userId" to their tables is not declared:
\* a foreign key that deletes the answers with their question ("cascade",
\* as the comments on the deletion of a question have it), a foreign key
\* that refuses the deletion of a question with answers ("restrict"), or no
\* foreign key ("none").  The store has one of the three; it stays
\* "undeclared" until a statement's outcome depends on it, and is the same
\* for every statement from then on.
AnswerKeys == {"cascade", "restrict", "none"}
KeysOf(table) == IF table.fk = "undeclared" THEN AnswerKeys ELSE {table.fk}

\* The table answers after `prisma.question.delete` of question id
\* (column "questionId") or `prisma.user.delete` of user id (column
\* "userId") under key k: the answers that refer to the deleted row go with
\* it under "cascade", and stay otherwise.
CascadeAnswers(table, column, id, k) ==
    IF \A a \in DOMAIN table.rows : table.rows[a][column] # id
    THEN table
    ELSE [table EXCEPT
            !.fk = k,
            !.rows = IF k = "cascade"
                     THEN [a \in {b \in DOMAIN table.rows : table.rows[b][column] # id} |->
                              table.rows[a]]
                     ELSE @]

\* INSERT INTO answers (..., "questionId", "userId", ...) under key k: a
\* foreign key refuses a row whose question or user is missing (23503);
\* without one the row goes in.
InsertAnswerError(k, liveQuestions, liveUsers, questionId, userId) ==
    IF k # "none" /\ (questionId \notin liveQuestions \/ userId \notin liveUsers)
    THEN "23503" ELSE "none"

\* An optional value: None, or Some(v).
None == <<>>
Some(v) == <<v>>

\* -------------------------------------------------------------------- state
VARIABLES
    users,       \* ids of the rows of table users
    questions,   \* table questions: id -> [title, type, description, userId]
    embedding,   \* column questions.embedding: id -> None | Some(vector)
    hasColumn,   \* whether the embedding column (and the vector type) exists
    apiKey,      \* whether GEMINI_API_KEY is set
    nextId,      \* the next fresh question id
    answers,     \* table answers: [next: the next fresh answer id,
                 \*                 rows: id -> [questionId, userId],
                 \*                 fk: its foreign key, once it has acted]
    accounts,    \* the columns of table users: [next: the number of the next
                 \*   account to be created, rows: id -> [role, email]]
    req          \* per client: the request in flight, or the last response

vars == <<users, questions, embedding, hasColumn, apiKey, nextId, answers, accounts, req>>

\* The accounts: a student, who asks questions, and an administrator, who
\* may delete accounts.
Student == "student"
Admin == "admin"
UserIds == {Student, Admin}
Authors == {Student}
QuestionIds == 1..MaxQuestions
\* "userId" IS NULL, and a request without a session
NoUser == "none"
\* The ids (cuid) of the accounts created later, in the order of creation.
SignupIds == <<"user1", "user2", "user3">>
AllUserIds == UserIds \cup {SignupIds[n] : n \in 1..MaxSignups}

\* Two clients issue requests concurrently.  The response of the first is
\* kept until its next request; the second is background traffic (deletions
\* of questions and of users), whose responses are dropped.
Procs == {"p1", "p2"}
Observed == {"p1"}
Background == Procs \ Observed

\* ------------------------------------------------------------------- inputs
\* Title and description of a question to create: a valid pair (to be
\* trimmed), a pair with an empty title, and a pair whose title is blank.
\*   ValidText   title " a", description "d" and a line feed
\*   EmptyTitle  title "", description "d"
\*   BlankTitle  title: a tab and a no-break space, description "d"
ValidText == [title |-> <<32, 97>>, description |-> <<100, 10>>]
EmptyTitle == [title |-> <<>>, description |-> <<100>>]
BlankTitle == [title |-> <<9, 160>>, description |-> <<100>>]
TextInputs == {ValidText}
RouteTextInputs == {ValidText, EmptyTitle}
\* type "t"
TypeInput == <<116>>

\* The data of an update; <<>> stands for a field that is not supplied (or
\* supplied as the empty string, which `if (data.x)` treats alike).  The
\* title supplied is "b".
UpdateInputs ==
    {[title |-> <<98>>, type |-> <<>>, description |-> <<>>],
     [title |-> <<>>, type |-> <<>>, description |-> <<>>]}

QueryVectors == {VecA, VecShort}
\* The query texts: "q", a space with a line separator (U+2028), and "".
QueryTexts == {<<113>>, <<32, 8232>>, <<>>}
\* The limit argument: None when the caller passes none.
LimitArgs == {None} \cup {Some(k) : k \in 0..MaxLimit}

\* ----------------------------------------------------------------- requests
\* pc is "idle" before the first request, the statement a request in flight
\* will execute next, or "done" once it has answered.  A request in flight
\* holds its arguments and locals; a response holds what the caller gets back
\* (status, error, result) and what the request did (query: the text of a
\* search; provider: the error the
\* embedding attempt failed with; caught: the database error the repository's
\* catch block handled; inserted: whether its INSERT succeeded; calls: the
\* requests made to the embedding model; nn: the nearest-neighbour queries
\* issued; caller: who asks for the deletion of user userId; role, email:
\* the role asked for an account, the email of an account to create; aid: the id of the answer it inserted; answers: what the embedding model answered to a direct embedding
\* request, in order; fresh: no write has reached the store since; repeatOf: the result
\* of the same search made just before, with no write in between).
Idle ==
    [op |-> "none", pc |-> "idle", title |-> <<>>, type |-> <<>>,
     description |-> <<>>, query |-> <<>>, userId |-> NoUser, qid |-> 0,
     embedding |-> None,
     provider |-> "none", caught |-> "none",
     status |-> "none", error |-> "none", inserted |-> FALSE,
     vec |-> EmptyVec, limit |-> None, result |-> <<>>,
     calls |-> 0, nn |-> 0, answers |-> <<>>, fresh |-> FALSE,
     repeatOf |-> None, aid |-> 0, caller |-> NoUser,
     role |-> "none", email |-> "none"]

Free(p) == req[p].pc \in {"idle", "done"}

\* The slot of client p once its request has answered with `response`.
Reply(p, response) ==
    IF p \in Observed THEN [response EXCEPT !.pc = "done"] ELSE Idle

\* A write to the store makes the responses describe an older store.
Stale(r) == [q \in Procs |-> [r[q] EXCEPT !.fresh = FALSE]]

\* users.role of a stored account
Role(u) == accounts.rows[u].role
Roles == {"STUDENT", "ADMIN"}

\* The empty table of answers.
NoAnswers == [next |-> 1, rows |-> <<>>, fk |-> "undeclared"]

\* The rows of the two first accounts; an account's email is written as its
\* owner's name.
FirstAccounts ==
    [next |-> 1,
     rows |-> [u \in UserIds |->
                [role |-> IF u = Admin THEN "ADMIN" ELSE "STUDENT", email |-> u]]]

Init ==
    /\ users = UserIds
    /\ questions = <<>>
    /\ embedding = <<>>
    /\ hasColumn = FALSE
    /\ apiKey \in BOOLEAN
    /\ nextId = 1
    /\ answers = NoAnswers
    /\ accounts = FirstAccounts
    /\ req = [p \in Procs |-> Idle]

\* The response of a create: r is the request, result the question returned.
CreateResponse(r, status, error, inserted, result) ==
    [Idle EXCEPT !.op = r.op, !.status = status, !.error = error,
                 !.qid = r.qid, !.userId = r.userId, !.embedding = r.embedding,
                 !.provider = r.provider, !.caught = r.caught,
                 !.inserted = inserted, !.result = result, !.calls = r.calls]

\* ------------------------------------------------- QuestionService.create
\* Fault: createQuestion without the try/catch around generateEmbedding, so
\* that the provider's error reaches the caller.
PropagateEmbeddingError(p, r, e) ==
    IF e.ok
    THEN [r EXCEPT !.pc = "insert", !.embedding = Some(e.value)]
    ELSE Reply(p, CreateResponse(r, "error", e.error, FALSE, <<>>))

\* createQuestion's try/catch around generateEmbedding: a failure is logged
\* and the question goes to the repository without an embedding.
SwallowEmbeddingError(p, r, e) ==
    [r EXCEPT !.pc = "insert",
              !.embedding = IF e.ok THEN Some(e.value) ELSE None]

\* createQuestion, up to the call of the repository: the embedding of
\* "title description" is attempted and any failure is swallowed.
createQuestion(p) ==
    /\ Free(p)
    /\ nextId <= MaxQuestions
    /\ \E text \in TextInputs, u \in Authors :
        \E resp \in ResponsesTo(apiKey, embeddingText(text.title, text.description)) :
        LET e == generateEmbedding(apiKey,
                     embeddingText(text.title, text.description), resp)
            r == [Idle EXCEPT !.op = "createQuestion",
                              !.title = text.title, !.type = TypeInput,
                              !.description = text.description, !.userId = u,
                              !.qid = nextId, !.calls = e.calls,
                              !.provider = e.error]
        IN req' = [req EXCEPT ![p] = SwallowEmbeddingError(p, r, e)]
    /\ nextId' = nextId + 1
    /\ UNCHANGED <<users, questions, embedding, hasColumn, apiKey, answers, accounts>>

\* `data.embedding && Array.isArray(data.embedding) && data.embedding.length > 0`
HasEmbedding(e) == e # None /\ Length(e[1]) > 0

\* Fault: an embedding service that keeps the last vector it computed in a
\* field of the (singleton) service, from where create takes it: the vector
\* of another create in flight.
SharedVector(p) ==
    LET others == {q \in Procs \ {p} :
                      /\ req[q].op = "createQuestion"
                      /\ req[q].pc \in {"insert", "retry"}
                      /\ req[q].embedding # None}
    IN IF others = {} THEN req[p].embedding
       ELSE req[CHOOSE q \in others : TRUE].embedding

\* `data.embedding`: createQuestion's local `embedding`, the result of this
\* call's own generateEmbedding.
OwnVector(p) == req[p].embedding

\* QuestionRepository.create, the try block: one INSERT, with the embedding
\* when one was given.  A failure goes to the catch block.
create_insert(p) ==
    LET given == OwnVector(p)
        r == [req[p] EXCEPT !.embedding = given]
        err == IF HasEmbedding(r.embedding)
               THEN InsertWithEmbeddingError(hasColumn, users, r.userId, r.embedding[1])
               ELSE InsertPlainError(users, r.userId)
    IN
    /\ r.op = "createQuestion" /\ r.pc = "insert"
    /\ IF err = "none"
       THEN /\ questions' = Put(questions, r.qid,
                                NewRow(r.title, r.type, r.description, r.userId))
            /\ embedding' = Put(embedding, r.qid,
                                IF HasEmbedding(r.embedding) THEN r.embedding ELSE None)
            /\ req' = [Stale(req) EXCEPT ![p].pc = "findById"]
       ELSE IF IsMissingColumnError(err)
       THEN /\ req' = [req EXCEPT ![p].pc = "retry", ![p].caught = err]
            /\ UNCHANGED <<questions, embedding>>
       ELSE /\ req' = [req EXCEPT ![p] =
                        Reply(p, CreateResponse(r, "error", err, FALSE, <<>>))]
            /\ UNCHANGED <<questions, embedding>>
    /\ UNCHANGED <<users, hasColumn, apiKey, nextId, answers, accounts>>

\* QuestionRepository.create, the catch block after a missing-column error:
\* the INSERT is repeated without the embedding; its failure is thrown.
create_retry(p) ==
    LET r == req[p]
        err == InsertPlainError(users, r.userId)
    IN
    /\ r.op = "createQuestion" /\ r.pc = "retry"
    /\ IF err = "none"
       THEN /\ questions' = Put(questions, r.qid,
                                NewRow(r.title, r.type, r.description, r.userId))
            /\ embedding' = Put(embedding, r.qid, None)
            /\ req' = [Stale(req) EXCEPT ![p].pc = "findById"]
       ELSE /\ req' = [req EXCEPT ![p] =
                        Reply(p, CreateResponse(r, "error", err, FALSE, <<>>))]
            /\ UNCHANGED <<questions, embedding>>
    /\ UNCHANGED <<users, hasColumn, apiKey, nextId, answers, accounts>>

\* QuestionRepository.create, `return (await this.findById(questionId))!`:
\* the result is the row read back, or null when it is gone.
create_findById(p) ==
    LET r == req[p] IN
    /\ r.op = "createQuestion" /\ r.pc = "findById"
    /\ req' = [req EXCEPT ![p] =
                Reply(p, CreateResponse(r, "ok", "none", TRUE,
                    IF r.qid \in DOMAIN questions THEN <<r.qid>> ELSE <<>>))]
    /\ UNCHANGED <<users, questions, embedding, hasColumn, apiKey, nextId, answers, accounts>>

\* --------------------------------------------------- POST /api/questions
IdResponse(op, id, status, error) ==
    [Idle EXCEPT !.op = op, !.qid = id, !.status = status, !.error = error]

\* POST, up to the INSERT: the session's user is looked up, the body is
\* validated, and the embedding is asked of /api/ai/embeddings; a response
\* that is not ok, or a failed fetch, leaves embedding = null.
\* caller is the user id of the session cookie, NoUser without a cookie.
postQuestionWith(p, texts) ==
    /\ Free(p)
    /\ nextId <= MaxQuestions
    /\ \E caller \in Authors \cup {NoUser}, text \in texts :
        IF caller \notin users
        THEN /\ req' = [req EXCEPT ![p] =
                         Reply(p, IdResponse("postQuestion", 0, "401", "Unauthorized"))]
             /\ UNCHANGED nextId
        ELSE IF ~Truthy(text.title) \/ ~Truthy(TypeInput) \/ ~Truthy(text.description)
        THEN /\ req' = [req EXCEPT ![p] =
                         Reply(p, IdResponse("postQuestion", 0, "400", "Required"))]
             /\ UNCHANGED nextId
        ELSE \E resp \in ResponsesTo(apiKey,
                            embeddingText(text.title, text.description)) :
             LET e == EmbeddingsRoute(apiKey,
                          embeddingText(text.title, text.description), resp)
             IN
             /\ req' = [req EXCEPT ![p] =
                    [Idle EXCEPT !.op = "postQuestion", !.pc = "insert",
                                 !.title = text.title, !.type = TypeInput,
                                 !.description = text.description,
                                 !.userId = caller, !.qid = nextId,
                                 !.embedding = IF e.ok THEN Some(e.value) ELSE None,
                                 !.calls = e.calls, !.provider = e.error]]
             /\ nextId' = nextId + 1
    /\ UNCHANGED <<users, questions, embedding, hasColumn, apiKey, answers, accounts>>

\* POST /api/questions with one of the usual bodies, and with a body whose
\* title is blank.
postQuestion(p) == postQuestionWith(p, RouteTextInputs)
postBlankTitle(p) == postQuestionWith(p, {BlankTitle})

\* The error of POST's INSERT.  `if (embedding)` holds for every array, the
\* empty one too, and Prisma.join throws a TypeError on an empty array.
PostInsertError(hasCol, liveUsers, userId, e) ==
    IF e = None THEN InsertPlainError(liveUsers, userId)
    ELSE IF Length(e[1]) = 0 THEN "TypeError"
    ELSE InsertWithEmbeddingError(hasCol, liveUsers, userId, e[1])

\* POST, the INSERT: any failure is answered 500 by the handler's catch.
postQuestion_insert(p) ==
    LET r == req[p]
        err == PostInsertError(hasColumn, users, r.userId, r.embedding)
    IN
    /\ r.op = "postQuestion" /\ r.pc = "insert"
    /\ IF err = "none"
       THEN /\ questions' = Put(questions, r.qid,
                                NewRow(r.title, r.type, r.description, r.userId))
            /\ embedding' = Put(embedding, r.qid, r.embedding)
            /\ req' = [Stale(req) EXCEPT ![p].pc = "select"]
       ELSE /\ req' = [req EXCEPT ![p] =
                        Reply(p, CreateResponse(r, "500", err, FALSE, <<>>))]
            /\ UNCHANGED <<questions, embedding>>
    /\ UNCHANGED <<users, hasColumn, apiKey, nextId, answers, accounts>>

\* POST, the read-back `SELECT ... FROM questions q JOIN users u ...`: the
\* first row is destructured and read, a TypeError when there is none.
postQuestion_select(p) ==
    LET r == req[p]
        found == r.qid \in DOMAIN questions /\ questions[r.qid].userId \in users
    IN
    /\ r.op = "postQuestion" /\ r.pc = "select"
    /\ req' = [req EXCEPT ![p] = Reply(p,
                IF found
                THEN CreateResponse(r, "201", "none", TRUE, <<r.qid>>)
                ELSE CreateResponse(r, "500", "TypeError", TRUE, <<>>))]
    /\ UNCHANGED <<users, questions, embedding, hasColumn, apiKey, nextId, answers, accounts>>

\* ------------------------------- POST of a question without an embedding
\* The bodies tried on it.
PlainTextInputs == {ValidText, EmptyTitle, BlankTitle}

\* The POST handler that stores a question without asking for an embedding,
\* up to the creation: the session's user is looked up and the body is
\* validated.
postQuestionPlain(p) ==
    /\ Free(p)
    /\ nextId <= MaxQuestions
    /\ \E caller \in Authors \cup {NoUser}, text \in PlainTextInputs :
        IF caller \notin users
        THEN /\ req' = [req EXCEPT ![p] =
                         Reply(p, IdResponse("postQuestionPlain", 0, "401", "Unauthorized"))]
             /\ UNCHANGED nextId
        ELSE IF ~Truthy(text.title) \/ ~Truthy(TypeInput) \/ ~Truthy(text.description)
        THEN /\ req' = [req EXCEPT ![p] =
                         Reply(p, IdResponse("postQuestionPlain", 0, "400", "Required"))]
             /\ UNCHANGED nextId
        ELSE /\ req' = [req EXCEPT ![p] =
                    [Idle EXCEPT !.op = "postQuestionPlain", !.pc = "create",
                                 !.title = text.title, !.type = TypeInput,
                                 !.description = text.description,
                                 !.userId = caller, !.qid = nextId]]
             /\ nextId' = nextId + 1
    /\ UNCHANGED <<users, questions, embedding, hasColumn, apiKey, answers, accounts>>

\* `prisma.question.create({ data: { title: title.trim(), ..., userId },
\* include: { user } })`: the row is written, without an embedding, and
\* returned with its owner; the catch answers 500 to a failure.
postQuestionPlain_create(p) ==
    LET r == req[p]
        err == InsertPlainError(users, r.userId)
    IN
    /\ r.op = "postQuestionPlain" /\ r.pc = "create"
    /\ IF err = "none"
       THEN /\ questions' = Put(questions, r.qid,
                                NewRow(r.title, r.type, r.description, r.userId))
            /\ embedding' = Put(embedding, r.qid, None)
            /\ req' = [Stale(req) EXCEPT ![p] =
                        Reply(p, CreateResponse(r, "201", "none", TRUE, <<r.qid>>))]
       ELSE /\ req' = [req EXCEPT ![p] =
                        Reply(p, CreateResponse(r, "500", err, FALSE, <<>>))]
            /\ UNCHANGED <<questions, embedding>>
    /\ UNCHANGED <<users, hasColumn, apiKey, nextId, answers, accounts>>

\* ------------------------------------------- update and delete a question
\* Fault: an update that writes every field of data, supplied or not.
OverwriteFields(row, data) ==
    [row EXCEPT !.title = data.title, !.type = data.type,
                !.description = data.description]

\* `if (data.x) updateData.x = data.x` for title, type and description.
ApplyUpdate(row, data) ==
    [row EXCEPT !.title = IF Truthy(data.title) THEN data.title ELSE @,
                !.type = IF Truthy(data.type) THEN data.type ELSE @,
                !.description = IF Truthy(data.description) THEN data.description ELSE @]

\* Fault: an update that re-embeds the question when its title is edited.
ReindexOnUpdate(column, id, data) ==
    IF hasColumn /\ Truthy(data.title)
    THEN [column EXCEPT ![id] = Some(VecA)] ELSE column

\* The embedding column after update(id, data): updateData never holds an
\* embedding, so the UPDATE statement does not name the column.
EmbeddingAfterUpdate(column, id, data) == column

\* QuestionRepository.update(id, data), `prisma.question.update`
updateWith(p, id, data) ==
    /\ Free(p)
    /\ IF id \in DOMAIN questions
       THEN /\ questions' = [questions EXCEPT ![id] = ApplyUpdate(@, data)]
            /\ embedding' = EmbeddingAfterUpdate(embedding, id, data)
            /\ req' = [Stale(req) EXCEPT ![p] =
                        [Idle EXCEPT !.op = "update", !.pc = "findById", !.qid = id]]
       ELSE /\ req' = [req EXCEPT ![p] =
                        Reply(p, IdResponse("update", id, "error", "P2025"))]
            /\ UNCHANGED <<questions, embedding>>
    /\ UNCHANGED <<users, hasColumn, apiKey, nextId, answers, accounts>>

\* QuestionRepository.update / QuestionService.updateQuestion
update(p) == \E id \in QuestionIds, data \in UpdateInputs : updateWith(p, id, data)

\* QuestionRepository.update, `return (await this.findById(id))!`: the result
\* is the row read back, or null when it is gone.
update_findById(p) ==
    LET r == req[p] IN
    /\ r.op = "update" /\ r.pc = "findById"
    /\ req' = [req EXCEPT ![p] =
                Reply(p, [IdResponse("update", r.qid, "ok", "none") EXCEPT
                    !.result = IF r.qid \in DOMAIN questions THEN <<r.qid>> ELSE <<>>])]
    /\ UNCHANGED <<users, questions, embedding, hasColumn, apiKey, nextId, answers, accounts>>

\* DELETE FROM questions WHERE id = $id: the row goes, and with it the cell
\* of its embedding column.
DeleteRow(table, id) == Drop(table, id)

\* Fault: vectors kept in a store of their own, which the DELETE of the row
\* does not reach.
KeepVector(column, id) == column

DeleteVector(column, id) == Drop(column, id)

\* QuestionRepository.delete / QuestionService.deleteQuestion: the row is
\* deleted, unless a foreign key of its answers refuses it (P2003) or it is
\* gone (P2025).
delete(p) ==
    /\ Free(p)
    /\ \E id \in QuestionIds, k \in KeysOf(answers) :
        IF id \in DOMAIN questions /\ k = "restrict"
           /\ \E a \in DOMAIN answers.rows : answers.rows[a].questionId = id
        THEN /\ answers' = [answers EXCEPT !.fk = k]
             /\ req' = [req EXCEPT ![p] =
                         Reply(p, IdResponse("delete", id, "error", "P2003"))]
             /\ UNCHANGED <<questions, embedding>>
        ELSE IF id \in DOMAIN questions
        THEN /\ questions' = DeleteRow(questions, id)
             /\ embedding' = DeleteVector(embedding, id)
             /\ answers' = CascadeAnswers(answers, "questionId", id, k)
             /\ req' = [Stale(req) EXCEPT ![p] =
                         Reply(p, IdResponse("delete", id, "ok", "none"))]
        ELSE /\ req' = [req EXCEPT ![p] =
                         Reply(p, IdResponse("delete", id, "error", "P2025"))]
             /\ UNCHANGED <<questions, embedding, answers>>
    /\ UNCHANGED <<users, hasColumn, apiKey, nextId, accounts>>

\* DELETE /api/questions/[id], the session's user (getCurrentUser).
deleteRoute(p) ==
    /\ Free(p)
    /\ \E caller \in UserIds \cup {NoUser}, id \in QuestionIds :
        req' = [req EXCEPT ![p] =
            IF caller \notin users
            THEN Reply(p, IdResponse("deleteRoute", id, "401", "Unauthorized"))
            ELSE [Idle EXCEPT !.op = "deleteRoute", !.pc = "findUnique",
                              !.userId = caller, !.qid = id]]
    /\ UNCHANGED <<users, questions, embedding, hasColumn, apiKey, nextId, answers, accounts>>

\* Fault: a DELETE handler without the comparison of the owner.
deleteRouteAnyUser(p) ==
    LET r == req[p] IN
    /\ r.op = "deleteRoute" /\ r.pc = "findUnique"
    /\ req' = [req EXCEPT ![p] =
            IF r.qid \notin DOMAIN questions
            THEN Reply(p, IdResponse("deleteRoute", r.qid, "404", "Question not found"))
            ELSE [r EXCEPT !.pc = "delete"]]
    /\ UNCHANGED <<users, questions, embedding, hasColumn, apiKey, nextId, answers, accounts>>

\* DELETE /api/questions/[id], the lookup of the question and the comparison
\* of its owner with the session's user.
deleteRoute_findUnique(p) ==
    LET r == req[p] IN
    /\ r.op = "deleteRoute" /\ r.pc = "findUnique"
    /\ req' = [req EXCEPT ![p] =
            IF r.qid \notin DOMAIN questions
            THEN Reply(p, IdResponse("deleteRoute", r.qid, "404", "Question not found"))
            ELSE IF questions[r.qid].userId # r.userId
            THEN Reply(p, IdResponse("deleteRoute", r.qid, "403", "Forbidden"))
            ELSE [r EXCEPT !.pc = "delete"]]
    /\ UNCHANGED <<users, questions, embedding, hasColumn, apiKey, nextId, answers, accounts>>

\* DELETE /api/questions/[id], the DELETE statement; the catch answers 500.
deleteRoute_delete(p) ==
    LET r == req[p] IN
    /\ r.op = "deleteRoute" /\ r.pc = "delete"
    /\ \E k \in KeysOf(answers) :
       IF r.qid \in DOMAIN questions /\ k = "restrict"
          /\ \E a \in DOMAIN answers.rows : answers.rows[a].questionId = r.qid
       THEN /\ answers' = [answers EXCEPT !.fk = k]
            /\ req' = [req EXCEPT ![p] =
                        Reply(p, IdResponse("deleteRoute", r.qid, "500", "P2003"))]
            /\ UNCHANGED <<questions, embedding>>
       ELSE IF r.qid \in DOMAIN questions
       THEN /\ questions' = DeleteRow(questions, r.qid)
            /\ embedding' = DeleteVector(embedding, r.qid)
            /\ answers' = CascadeAnswers(answers, "questionId", r.qid, k)
            /\ req' = [Stale(req) EXCEPT ![p] =
                        Reply(p, IdResponse("deleteRoute", r.qid, "200", "none"))]
       ELSE /\ req' = [req EXCEPT ![p] =
                        Reply(p, IdResponse("deleteRoute", r.qid, "500", "P2025"))]
            /\ UNCHANGED <<questions, embedding, answers>>
    /\ UNCHANGED <<users, hasColumn, apiKey, nextId, accounts>>

\* ------------------------------------------------- nearest-neighbour search
\* The rows the query ranks: WHERE q.embedding IS NOT NULL, after the join
\* with users (a LEFT JOIN keeps every row, a JOIN only rows with an owner).
RankedRows(innerJoin) ==
    {id \in DOMAIN questions :
        /\ embedding[id] # None
        /\ innerJoin => questions[id].userId \in users}

\* q.embedding <-> $v::vector
Distance(id, v) == L2Squared(embedding[id][1], v)

Perms(S) ==
    {s \in [1..Cardinality(S) -> S] : \A i, j \in 1..Cardinality(S) : i # j => s[i] # s[j]}

\* Fault: a query without the ORDER BY, the rows coming in insertion order.
InsertionOrder(rows, v) ==
    {s \in Perms(rows) : \A i, j \in 1..Len(s) : i < j => s[i] < s[j]}

\* ORDER BY q.embedding <-> $v: every order of the rows that ascends in the
\* distance; the order of rows at equal distance is left to the database.
OrderBy(rows, v) ==
    {s \in Perms(rows) :
        \A i, j \in 1..Len(s) : i < j => Distance(s[i], v) <= Distance(s[j], v)}

\* Fault: a LIMIT that lets one row too many through.
LimitInclusive(s, k) == SubSeq(s, 1, Min(k + 1, Len(s)))

\* LIMIT k
Limit(s, k) == SubSeq(s, 1, Min(k, Len(s)))

\* The failure of the query with LIMIT k, "none" when it runs: Prisma.join
\* rejects an empty array while the statement is built, the embedding column
\* may be missing, and <-> rejects operands of different dimensions.  With
\* LIMIT 0 the database returns before it ranks a row, and <-> is applied to
\* no stored vector.
QueryError(rows, v, k) ==
    IF Length(v) = 0 THEN "TypeError"
    ELSE IF ~hasColumn THEN "42703"
    ELSE IF k > 0 /\ \E id \in rows : Length(embedding[id][1]) # Length(v) THEN "22000"
    ELSE "none"

\* The statements sent to the store by a search for v: none when Prisma.join
\* throws before $queryRaw is reached.
QueriesSent(v) == IF Length(v) = 0 THEN 0 ELSE 1

\* Fault: a search that keeps its last result list and answers from it when
\* there is one.
CachedResults(rows, v, k) ==
    IF \E p \in Observed : req[p].pc = "done" /\ req[p].op \in
           {"searchByEmbedding", "searchQuestions", "searchRoute"} /\ req[p].error = "none"
    THEN {req[p].result : p \in {q \in Observed : req[q].pc = "done"}}
    ELSE {Limit(s, k) : s \in OrderBy(rows, v)}

\* The id lists the query may return.
QueryResults(rows, v, k) == {Limit(s, k) : s \in OrderBy(rows, v)}

\* The response of a search by client p.
SearchResponse(p, op, v, lim, status, error, result, calls, nn) ==
    [Idle EXCEPT !.op = op, !.vec = v, !.limit = lim, !.status = status,
                 !.error = error, !.result = result, !.calls = calls, !.nn = nn,
                 !.fresh = TRUE,
                 !.repeatOf =
                     IF /\ req[p].pc = "done" /\ req[p].op = op /\ req[p].fresh
                        /\ req[p].error = "none" /\ error = "none"
                        /\ req[p].vec = v /\ req[p].limit = lim
                     THEN Some(req[p].result) ELSE None]

\* The responses of one nearest-neighbour query for v with limit k.
SearchResponses(p, op, v, lim, k, innerJoin, okStatus, errStatus, calls) ==
    LET rows == RankedRows(innerJoin)
        err == QueryError(rows, v, k)
    IN IF err # "none"
       THEN {SearchResponse(p, op, v, lim, errStatus, err, <<>>, calls, QueriesSent(v))}
       ELSE {SearchResponse(p, op, v, lim, okStatus, "none", res, calls, QueriesSent(v)) :
                res \in QueryResults(rows, v, k)}

\* Fault: a search that answers a failed embedding with an unfiltered
\* listing of the questions.
FallbackToListing(p, op, lim, status, e) ==
    {[SearchResponse(p, op, EmptyVec, lim, "ok", "none", s, e.calls, 0)
        EXCEPT !.provider = e.error] : s \in Perms(DOMAIN questions)}

\* The embedding of the query failed with e: the search throws (the route
\* answers `status`), and no query is sent to the store.
EmbeddingFailure(p, op, lim, status, e) ==
    {[SearchResponse(p, op, EmptyVec, lim, status, e.error, <<>>, e.calls, 0)
        EXCEPT !.provider = e.error]}

\* QuestionRepository.searchByEmbedding(embedding, limit = 3)
searchByEmbedding(p) ==
    /\ Free(p)
    /\ \E v \in QueryVectors, lim \in LimitArgs :
        \E response \in SearchResponses(p, "searchByEmbedding", v, lim,
                            IF lim = None THEN DefaultLimit ELSE lim[1],
                            FALSE, "ok", "error", 0) :
            req' = [req EXCEPT ![p] = Reply(p, response)]
    /\ UNCHANGED <<users, questions, embedding, hasColumn, apiKey, nextId, answers, accounts>>

\* QuestionService.searchQuestions(query, limit = 3)
searchQuestions(p) ==
    /\ Free(p)
    /\ \E text \in QueryTexts, lim \in LimitArgs :
        \E e \in {generateEmbedding(apiKey, text, resp) :
                      resp \in ResponsesTo(apiKey, text)} :
        \E response \in
            IF ~e.ok
            THEN EmbeddingFailure(p, "searchQuestions", lim, "error", e)
            ELSE SearchResponses(p, "searchQuestions", e.value, lim,
                                 IF lim = None THEN DefaultLimit ELSE lim[1],
                                 FALSE, "ok", "error", e.calls) :
            req' = [req EXCEPT ![p] = Reply(p, [response EXCEPT !.query = text])]
    /\ UNCHANGED <<users, questions, embedding, hasColumn, apiKey, nextId, answers, accounts>>

\* POST /api/questions/search with body { query, limit = 5 }
searchRoute(p) ==
    /\ Free(p)
    /\ \E text \in QueryTexts, lim \in LimitArgs :
        \E e \in {EmbeddingsRoute(apiKey, trim(text), resp) :
                      resp \in ResponsesTo(apiKey, text)} :
        \E response \in
            IF ~Truthy(text) \/ ~Truthy(trim(text))
            THEN {SearchResponse(p, "searchRoute", EmptyVec, lim, "400",
                                 "InvalidInput", <<>>, 0, 0)}
            ELSE IF ~e.ok
            THEN EmbeddingFailure(p, "searchRoute", lim, "500", e)
            ELSE SearchResponses(p, "searchRoute", e.value, lim,
                                 IF lim = None THEN RouteDefaultLimit ELSE lim[1],
                                 TRUE, "200", "500", e.calls) :
            req' = [req EXCEPT ![p] = Reply(p, [response EXCEPT !.query = text])]
    /\ UNCHANGED <<users, questions, embedding, hasColumn, apiKey, nextId, answers, accounts>>

\* ------------------------------------------------------ embedding requests
\* The answers the model gave: none when the request never reached it.
Answers(resps) == SelectSeq(resps, LAMBDA a : a # NoResponse)

\* What an embedding request answers: the vector, or the error.
EmbedResponse(op, text, resps, e, status) ==
    [Idle EXCEPT !.op = op, !.query = text, !.answers = Answers(resps),
                 !.status = status, !.error = e.error, !.provider = e.error,
                 !.embedding = IF e.ok THEN Some(e.value) ELSE None,
                 !.calls = e.calls]

\* The status of the embeddings route: 400 for a blank text, 500 for every
\* other failure.
RouteStatus(e) ==
    IF e.ok THEN "200" ELSE IF e.error = "InvalidInput" THEN "400" ELSE "500"

\* embeddingService.generateEmbedding(text), called on its own.
embed(p) ==
    /\ Free(p)
    /\ \E text \in QueryTexts :
        \E resp \in EmbedResponsesTo(apiKey, text) :
        LET e == generateEmbedding(apiKey, text, resp) IN
        req' = [req EXCEPT ![p] =
                 Reply(p, EmbedResponse("embed", text, <<resp>>, e,
                                        IF e.ok THEN "ok" ELSE "error"))]
    /\ UNCHANGED <<users, questions, embedding, hasColumn, apiKey, nextId, answers, accounts>>

\* POST /api/ai/embeddings { text }, REST variant.
embedRoute(p) ==
    /\ Free(p)
    /\ \E text \in QueryTexts :
        \E resp \in EmbedResponsesTo(apiKey, text) :
        LET e == EmbeddingsRoute(apiKey, text, resp) IN
        req' = [req EXCEPT ![p] =
                 Reply(p, EmbedResponse("embedRoute", text, <<resp>>, e,
                                        RouteStatus(e)))]
    /\ UNCHANGED <<users, questions, embedding, hasColumn, apiKey, nextId, answers, accounts>>

\* POST /api/ai/embeddings { text }, SDK variant.
embedRouteSdk(p) ==
    /\ Free(p)
    /\ \E text \in QueryTexts :
        \E sdk \in EmbedResponsesTo(apiKey, text) :
        \E resp \in IF NeedsFallback(sdk) THEN ProviderResponses ELSE {NoResponse} :
        LET e == EmbeddingsRouteSdk(apiKey, text, sdk, resp) IN
        req' = [req EXCEPT ![p] =
                 Reply(p, EmbedResponse("embedRouteSdk", text, <<sdk, resp>>, e,
                                        RouteStatus(e)))]
    /\ UNCHANGED <<users, questions, embedding, hasColumn, apiKey, nextId, answers, accounts>>

\* ------------------------------------------------------------------ answers
\* The answerers, and the description of an answer: "d", and a blank one
\* (an ideographic space, U+3000).
Answerers == UserIds
AnswerTexts == {<<100>>, <<12288>>}

\* Requests for an answer that have not inserted yet; each will take an id.
AnswersInFlight ==
    Cardinality({q \in Procs : req[q].op \in {"createAnswer", "postAnswer", "postAnswerJsonb"}
                                /\ req[q].pc \in {"findUnique", "insert"}})
MayAnswer == answers.next + AnswersInFlight <= MaxAnswers

\* What a request for an answer responds.
AnswerResponse(r, status, error, inserted) ==
    [Idle EXCEPT !.op = r.op, !.qid = r.qid, !.userId = r.userId, !.aid = r.aid,
                 !.status = status, !.error = error, !.inserted = inserted]

\* The INSERT of an answer by p: the row goes in under a fresh id, or the
\* statement fails on a foreign key.  The code does not test the question or
\* the user again: only the table's key stands between a row that went
\* missing since the lookup and the INSERT.
InsertAnswer(p, errStatus) ==
    LET r == req[p]
        missing == r.qid \notin DOMAIN questions \/ r.userId \notin users
    IN \E k \in KeysOf(answers) :
        LET err == InsertAnswerError(k, DOMAIN questions, users, r.qid, r.userId)
            table == IF missing THEN [answers EXCEPT !.fk = k] ELSE answers
        IN IF err = "none"
           THEN /\ answers' = [table EXCEPT
                                !.next = @ + 1,
                                !.rows = Put(@, answers.next,
                                             [questionId |-> r.qid, userId |-> r.userId])]
                /\ req' = [req EXCEPT ![p].pc = "select", ![p].aid = answers.next]
           ELSE /\ answers' = table
                /\ req' = [req EXCEPT ![p] = Reply(p, AnswerResponse(r, errStatus, err, FALSE))]

\* QuestionService.createAnswer(data), up to answerRepository.create: the
\* question is looked up, 'Question not found' when there is none.
createAnswer(p) ==
    /\ Free(p) /\ MayAnswer
    /\ \E id \in QuestionIds, u \in Answerers :
        req' = [req EXCEPT ![p] =
            LET r == [Idle EXCEPT !.op = "createAnswer", !.pc = "insert",
                                  !.qid = id, !.userId = u]
            IN IF id \notin DOMAIN questions
               THEN Reply(p, AnswerResponse(r, "error", "Question not found", FALSE))
               ELSE r]
    /\ UNCHANGED <<users, questions, embedding, hasColumn, apiKey, nextId, answers, accounts>>

\* AnswerRepository.create, the INSERT.
createAnswer_insert(p) ==
    /\ req[p].op = "createAnswer" /\ req[p].pc = "insert"
    /\ InsertAnswer(p, "error")
    /\ UNCHANGED <<users, questions, embedding, hasColumn, apiKey, nextId, accounts>>

\* AnswerRepository.create, `return (await this.findById(answerId))!`:
\* null when the row is gone; when the row is there and its user is not,
\* `answer.user.id` throws a TypeError.
createAnswer_findById(p) ==
    LET r == req[p] IN
    /\ r.op = "createAnswer" /\ r.pc = "select"
    /\ req' = [req EXCEPT ![p] = Reply(p,
                IF r.aid \notin DOMAIN answers.rows
                THEN AnswerResponse(r, "ok", "none", TRUE)
                ELSE IF answers.rows[r.aid].userId \notin users
                THEN AnswerResponse(r, "error", "TypeError", TRUE)
                ELSE [AnswerResponse(r, "ok", "none", TRUE) EXCEPT !.result = <<r.aid>>])]
    /\ UNCHANGED <<users, questions, embedding, hasColumn, apiKey, nextId, answers, accounts>>

\* The two POST handlers of an answer: that of answers/route.ts, and the one
\* that passes the images as jsonb and does not test its read-back.
AnswerPosts == {"postAnswer", "postAnswerJsonb"}

\* A POST of an answer up to the lookup of the question: the session's user
\* and the description are checked.
answerPost(p, op) ==
    /\ Free(p) /\ MayAnswer
    /\ \E caller \in Answerers \cup {NoUser}, id \in QuestionIds, text \in AnswerTexts :
        req' = [req EXCEPT ![p] =
            LET r == [Idle EXCEPT !.op = op, !.pc = "findUnique",
                                  !.qid = id, !.userId = caller, !.description = text]
            IN IF caller \notin users
               THEN Reply(p, AnswerResponse(r, "401", "Unauthorized", FALSE))
               ELSE IF ~Truthy(text) \/ ~Truthy(trim(text))
               THEN Reply(p, AnswerResponse(r, "400", "Description is required", FALSE))
               ELSE r]
    /\ UNCHANGED <<users, questions, embedding, hasColumn, apiKey, nextId, answers, accounts>>

\* A POST of an answer, the lookup of the question.
answerPost_findUnique(p, op) ==
    LET r == req[p] IN
    /\ r.op = op /\ r.pc = "findUnique"
    /\ req' = [req EXCEPT ![p] =
            IF r.qid \notin DOMAIN questions
            THEN Reply(p, AnswerResponse(r, "404", "Question not found", FALSE))
            ELSE [r EXCEPT !.pc = "insert"]]
    /\ UNCHANGED <<users, questions, embedding, hasColumn, apiKey, nextId, answers, accounts>>

\* A POST of an answer, the INSERT; the catch answers 500.
answerPost_insert(p, op) ==
    /\ req[p].op = op /\ req[p].pc = "insert"
    /\ InsertAnswer(p, "500")
    /\ UNCHANGED <<users, questions, embedding, hasColumn, apiKey, nextId, accounts>>

\* A POST of an answer, the read-back `SELECT ... FROM answers a JOIN users u`:
\* 201 with the row, or `missing` when it yields no row.
answerPost_select(p, op, missing) ==
    LET r == req[p]
        found == r.aid \in DOMAIN answers.rows /\ answers.rows[r.aid].userId \in users
    IN
    /\ r.op = op /\ r.pc = "select"
    /\ req' = [req EXCEPT ![p] = Reply(p,
                IF found
                THEN [AnswerResponse(r, "201", "none", TRUE) EXCEPT !.result = <<r.aid>>]
                ELSE AnswerResponse(r, "500", missing, TRUE))]
    /\ UNCHANGED <<users, questions, embedding, hasColumn, apiKey, nextId, answers, accounts>>

\* POST /api/questions/[id]/answers (answers/route.ts): session and
\* validation, the lookup, the INSERT, and the read-back, which answers
\* 'Failed to create answer' when it finds no row.
postAnswer(p) == answerPost(p, "postAnswer")
postAnswer_findUnique(p) == answerPost_findUnique(p, "postAnswer")
postAnswer_insert(p) == answerPost_insert(p, "postAnswer")
postAnswer_select(p) == answerPost_select(p, "postAnswer", "Failed to create answer")

\* POST /api/questions/[id]/answers (images as jsonb): the same statements;
\* the read-back destructures its first row untested, so that reading `.id`
\* of no row throws a TypeError and the catch answers 500.  Its INSERT casts
\* the images to jsonb where the other writers of the table cast them to
\* text[]; no migration of the repository declares the column, so the
\* statement is either accepted or refused as a datatype mismatch (42804),
\* which the catch answers 500.
postAnswerJsonb(p) == answerPost(p, "postAnswerJsonb")
postAnswerJsonb_findUnique(p) == answerPost_findUnique(p, "postAnswerJsonb")
postAnswerJsonb_insert(p) ==
    \/ answerPost_insert(p, "postAnswerJsonb")
    \/ /\ req[p].op = "postAnswerJsonb" /\ req[p].pc = "insert"
       /\ req' = [req EXCEPT ![p] = Reply(p, AnswerResponse(req[p], "500", "42804", FALSE))]
       /\ UNCHANGED <<users, questions, embedding, hasColumn, apiKey, nextId, answers, accounts>>
postAnswerJsonb_select(p) == answerPost_select(p, "postAnswerJsonb", "TypeError")

\* QuestionService.deleteAnswer(id) / AnswerRepository.delete:
\* `prisma.answer.delete({ where: { id } })`
deleteAnswer(p) ==
    /\ Free(p)
    /\ \E id \in 1..MaxAnswers :
        IF id \in DOMAIN answers.rows
        THEN /\ answers' = [answers EXCEPT !.rows = Drop(@, id)]
             /\ req' = [req EXCEPT ![p] =
                    Reply(p, [IdResponse("deleteAnswer", 0, "ok", "none") EXCEPT !.aid = id])]
        ELSE /\ req' = [req EXCEPT ![p] =
                    Reply(p, [IdResponse("deleteAnswer", 0, "error", "P2025") EXCEPT !.aid = id])]
             /\ UNCHANGED answers
    /\ UNCHANGED <<users, questions, embedding, hasColumn, apiKey, nextId, accounts>>

\* DELETE of an answer by its id (only an administrator may), up to the
\* lookup of the answer: the session's user and role.
deleteAnswerRoute(p) ==
    /\ Free(p)
    /\ \E caller \in UserIds \cup {NoUser}, id \in 1..MaxAnswers :
        req' = [req EXCEPT ![p] =
            LET answer(status, error) ==
                    Reply(p, [IdResponse("deleteAnswerRoute", 0, status, error)
                                EXCEPT !.aid = id, !.caller = caller])
            IN IF caller \notin users THEN answer("401", "Unauthorized")
               ELSE IF Role(caller) # "ADMIN"
               THEN answer("403", "Only admins can delete answers")
               ELSE [Idle EXCEPT !.op = "deleteAnswerRoute", !.pc = "findUnique",
                                 !.aid = id, !.caller = caller]]
    /\ UNCHANGED <<users, questions, embedding, hasColumn, apiKey, nextId, answers, accounts>>

\* DELETE of an answer, the lookup of the answer.
deleteAnswerRoute_findUnique(p) ==
    LET r == req[p] IN
    /\ r.op = "deleteAnswerRoute" /\ r.pc = "findUnique"
    /\ req' = [req EXCEPT ![p] =
            IF r.aid \notin DOMAIN answers.rows
            THEN Reply(p, [IdResponse("deleteAnswerRoute", 0, "404", "Answer not found")
                             EXCEPT !.aid = r.aid, !.caller = r.caller])
            ELSE [r EXCEPT !.pc = "delete"]]
    /\ UNCHANGED <<users, questions, embedding, hasColumn, apiKey, nextId, answers, accounts>>

\* DELETE of an answer, `prisma.answer.delete`; the catch answers 500.
deleteAnswerRoute_delete(p) ==
    LET r == req[p] IN
    /\ r.op = "deleteAnswerRoute" /\ r.pc = "delete"
    /\ IF r.aid \in DOMAIN answers.rows
       THEN /\ answers' = [answers EXCEPT !.rows = Drop(@, r.aid)]
            /\ req' = [req EXCEPT ![p] =
                    Reply(p, [IdResponse("deleteAnswerRoute", 0, "200", "none")
                                EXCEPT !.aid = r.aid, !.caller = r.caller])]
       ELSE /\ req' = [req EXCEPT ![p] =
                    Reply(p, [IdResponse("deleteAnswerRoute", 0, "500", "P2025")
                                EXCEPT !.aid = r.aid, !.caller = r.caller])]
            /\ UNCHANGED answers
    /\ UNCHANGED <<users, questions, embedding, hasColumn, apiKey, nextId, accounts>>

\* ------------------------------------------------------------- accounts
UserResponse(op, u, status, error) ==
    [Idle EXCEPT !.op = op, !.userId = u, !.status = status, !.error = error]

\* Fault: the foreign key as first created, ON DELETE CASCADE, with an
\* updateMany to match: the questions of u go with u.
CascadeDelete(u) ==
    [id \in {i \in DOMAIN questions : questions[i].userId # u} |-> questions[id]]

\* UPDATE questions SET "userId" = NULL WHERE "userId" = u; this is also what
\* the foreign key (ON DELETE SET NULL) does when the user row is deleted.
SetOwnerNull(u) ==
    [id \in DOMAIN questions |->
        IF questions[id].userId = u
        THEN [questions[id] EXCEPT !.userId = NoUser] ELSE questions[id]]

\* Whether a stored account has this email (the column is unique).
EmailTaken(email) == \E u \in users : accounts.rows[u].email = email

\* `prisma.question.updateMany({ where: { userId }, data: { userId: null } })`
\* of the deletion of a user that client p has in flight.
updateManyOwnerNull(p) ==
    /\ questions' = SetOwnerNull(req[p].userId)
    /\ req' = [Stale(req) EXCEPT ![p].pc = "delete"]
    /\ UNCHANGED <<users, embedding, hasColumn, apiKey, nextId, answers, accounts>>

\* `prisma.user.delete({ where: { id } })` of the deletion that client p has
\* in flight: the row goes, or the statement fails because it is gone
\* (P2025) or because a foreign key of the user's answers refuses it (P2003);
\* under a cascading key the user's answers go with the user.
userDelete(p, okStatus, errStatus) ==
    LET r == req[p] IN
    /\ \E k \in KeysOf(answers) :
       IF r.userId \in users /\ k = "restrict"
          /\ \E a \in DOMAIN answers.rows : answers.rows[a].userId = r.userId
       THEN /\ answers' = [answers EXCEPT !.fk = k]
            /\ req' = [req EXCEPT ![p] =
                        Reply(p, [UserResponse(r.op, r.userId, errStatus, "P2003")
                                    EXCEPT !.caller = r.caller])]
            /\ UNCHANGED <<users, accounts, questions>>
       ELSE IF r.userId \in users
       THEN /\ users' = users \ {r.userId}
            /\ accounts' = [accounts EXCEPT !.rows = Drop(@, r.userId)]
            /\ questions' = SetOwnerNull(r.userId)
            /\ answers' = CascadeAnswers(answers, "userId", r.userId, k)
            /\ req' = [Stale(req) EXCEPT ![p] =
                        Reply(p, [UserResponse(r.op, r.userId, okStatus, "none")
                                    EXCEPT !.caller = r.caller])]
       ELSE /\ req' = [req EXCEPT ![p] =
                        Reply(p, [UserResponse(r.op, r.userId, errStatus, "P2025")
                                    EXCEPT !.caller = r.caller])]
            /\ UNCHANGED <<users, accounts, questions, answers>>
    /\ UNCHANGED <<embedding, hasColumn, apiKey, nextId>>

\* Fault: deleteUser without the test for the caller's own account.
deleteUserNoSelfCheck(p) ==
    /\ Free(p)
    /\ \E target \in UserIds, current \in {Admin} :
        req' = [req EXCEPT ![p] =
            IF target \notin users
            THEN Reply(p, [UserResponse("deleteUser", target, "error", "User not found")
                             EXCEPT !.caller = current])
            ELSE [Idle EXCEPT !.op = "deleteUser", !.pc = "updateMany",
                              !.userId = target, !.caller = current]]
    /\ UNCHANGED <<users, questions, embedding, hasColumn, apiKey, nextId, answers, accounts>>

\* UserService.deleteUser(userId, currentUserId), up to the call of
\* UserRepository.delete: the own-account test and the lookup of the user.
deleteUser(p) ==
    /\ Free(p)
    /\ \E target \in UserIds, current \in {Admin} :
        req' = [req EXCEPT ![p] =
            IF target = current
            THEN Reply(p, [UserResponse("deleteUser", target, "error",
                              "You cannot delete your own account")
                             EXCEPT !.caller = current])
            ELSE IF target \notin users
            THEN Reply(p, [UserResponse("deleteUser", target, "error", "User not found")
                             EXCEPT !.caller = current])
            ELSE [Idle EXCEPT !.op = "deleteUser", !.pc = "updateMany",
                              !.userId = target, !.caller = current]]
    /\ UNCHANGED <<users, questions, embedding, hasColumn, apiKey, nextId, answers, accounts>>

\* UserRepository.delete, the updateMany.
deleteUser_updateMany(p) ==
    /\ req[p].op = "deleteUser" /\ req[p].pc = "updateMany"
    /\ updateManyOwnerNull(p)

\* UserRepository.delete, `prisma.user.delete`.
deleteUser_delete(p) ==
    /\ req[p].op = "deleteUser" /\ req[p].pc = "delete"
    /\ userDelete(p, "ok", "error")

\* DELETE /api/users/[id], up to the lookup of the target: the session's
\* user and role, and the own-account test.  caller is the user id of the
\* session cookie.
deleteUserRoute(p) ==
    /\ Free(p)
    /\ \E caller \in AllUserIds \cup {NoUser}, target \in AllUserIds :
        LET answer(status, error) ==
                Reply(p, [UserResponse("deleteUserRoute", target, status, error)
                            EXCEPT !.caller = caller])
        IN req' = [req EXCEPT ![p] =
            IF caller \notin users THEN answer("401", "Unauthorized")
            ELSE IF Role(caller) # "ADMIN" THEN answer("403", "Forbidden")
            ELSE IF target = caller
            THEN answer("400", "You cannot delete your own account")
            ELSE [Idle EXCEPT !.op = "deleteUserRoute", !.pc = "findUnique",
                              !.userId = target, !.caller = caller]]
    /\ UNCHANGED <<users, questions, embedding, hasColumn, apiKey, nextId, answers, accounts>>

\* DELETE /api/users/[id], the lookup of the target.
deleteUserRoute_findUnique(p) ==
    LET r == req[p] IN
    /\ r.op = "deleteUserRoute" /\ r.pc = "findUnique"
    /\ req' = [req EXCEPT ![p] =
            IF r.userId \notin users
            THEN Reply(p, [UserResponse("deleteUserRoute", r.userId, "404", "User not found")
                             EXCEPT !.caller = r.caller])
            ELSE [r EXCEPT !.pc = "updateMany"]]
    /\ UNCHANGED <<users, questions, embedding, hasColumn, apiKey, nextId, answers, accounts>>

\* DELETE /api/users/[id], the updateMany.
deleteUserRoute_updateMany(p) ==
    /\ req[p].op = "deleteUserRoute" /\ req[p].pc = "updateMany"
    /\ updateManyOwnerNull(p)

\* DELETE /api/users/[id], `prisma.user.delete`; the catch answers 500.
deleteUserRoute_delete(p) ==
    /\ req[p].op = "deleteUserRoute" /\ req[p].pc = "delete"
    /\ userDelete(p, "200", "500")

\* The emails a new account is asked for: that of the student's account,
\* and one that no first account has.  A signup body may also carry none.
SignupEmails == {Student, "newcomer"}
NoEmail == ""

\* Creations of an account that have not inserted yet; each will take an id.
SignupsInFlight ==
    Cardinality({q \in Procs : req[q].op \in {"signup", "signupRoute"}
                                /\ req[q].pc = "create"})
MaySignup == accounts.next + SignupsInFlight <= MaxSignups

\* `prisma.user.create({ data: { email, ..., role } })`: the row goes in under
\* a fresh id, or the statement fails on the unique email (P2002).
userCreate(p, op, email, role, okStatus, errStatus) ==
    LET id == SignupIds[accounts.next] IN
    IF EmailTaken(email)
    THEN /\ req' = [req EXCEPT ![p] = Reply(p, UserResponse(op, NoUser, errStatus, "P2002"))]
         /\ UNCHANGED <<users, accounts>>
    ELSE /\ users' = users \cup {id}
         /\ accounts' = [next |-> accounts.next + 1,
                         rows |-> Put(accounts.rows, id, [role |-> role, email |-> email])]
         /\ req' = [req EXCEPT ![p] = Reply(p, UserResponse(op, id, okStatus, "none"))]

\* AuthService.signup(email, password, name), up to the creation:
\* findByEmail.  The email is not validated: an empty one is looked up and
\* created like any other.
signup(p) ==
    /\ Free(p) /\ MaySignup
    /\ \E email \in SignupEmails \cup {NoEmail} :
        req' = [req EXCEPT ![p] =
            IF EmailTaken(email)
            THEN Reply(p, UserResponse("signup", NoUser, "error",
                                       "User with this email already exists"))
            ELSE [Idle EXCEPT !.op = "signup", !.pc = "create", !.email = email]]
    /\ UNCHANGED <<users, questions, embedding, hasColumn, apiKey, nextId, answers, accounts>>

\* AuthService.signup, UserRepository.create with role STUDENT.
signup_create(p) ==
    /\ req[p].op = "signup" /\ req[p].pc = "create"
    /\ userCreate(p, "signup", req[p].email, "STUDENT", "ok", "error")
    /\ UNCHANGED <<questions, embedding, hasColumn, apiKey, nextId, answers>>

\* POST /api/auth/signup, up to the creation: a body without an email is
\* refused, and the email is looked up.
signupRoute(p) ==
    /\ Free(p) /\ MaySignup
    /\ \E email \in SignupEmails \cup {NoEmail} :
        req' = [req EXCEPT ![p] =
            IF email = NoEmail
            THEN Reply(p, UserResponse("signupRoute", NoUser, "400",
                                       "Email and password are required"))
            ELSE IF EmailTaken(email)
            THEN Reply(p, UserResponse("signupRoute", NoUser, "400",
                                       "User with this email already exists"))
            ELSE [Idle EXCEPT !.op = "signupRoute", !.pc = "create", !.email = email]]
    /\ UNCHANGED <<users, questions, embedding, hasColumn, apiKey, nextId, answers, accounts>>

\* POST /api/auth/signup, `prisma.user.create` with role STUDENT; the catch
\* answers 500.
signupRoute_create(p) ==
    /\ req[p].op = "signupRoute" /\ req[p].pc = "create"
    /\ userCreate(p, "signupRoute", req[p].email, "STUDENT", "200", "500")
    /\ UNCHANGED <<questions, embedding, hasColumn, apiKey, nextId, answers>>

\* UserService.createAdminUser(email, password, name): UserRepository.create
\* with role ADMIN.
createAdminUser(p) ==
    /\ Free(p) /\ MaySignup
    /\ \E email \in SignupEmails :
        userCreate(p, "createAdminUser", email, "ADMIN", "ok", "error")
    /\ UNCHANGED <<questions, embedding, hasColumn, apiKey, nextId, answers>>

\* `prisma.user.update({ where: { id }, data: { role } })`
SetRole(u, role) == [accounts EXCEPT !.rows[u].role = role]

\* The data of UserRepository.update: an email or none (or the empty string,
\* which `if (data.email)` treats alike), a role or none.
NoRole == "none"
UserUpdates == [email : {NoEmail, "newcomer"}, role : {NoRole, "ADMIN"}]

\* UserRepository.update(id, data): the email and the role that are supplied
\* are written by one `prisma.user.update`, which fails when the user has no
\* row (P2025) or another account has the email (P2002).
updateUser(p) ==
    /\ Free(p)
    /\ \E target \in AllUserIds, data \in UserUpdates :
        IF target \notin users
        THEN /\ req' = [req EXCEPT ![p] =
                    Reply(p, UserResponse("updateUser", target, "error", "P2025"))]
             /\ UNCHANGED accounts
        ELSE IF data.email # NoEmail
                /\ \E u \in users \ {target} : accounts.rows[u].email = data.email
        THEN /\ req' = [req EXCEPT ![p] =
                    Reply(p, UserResponse("updateUser", target, "error", "P2002"))]
             /\ UNCHANGED accounts
        ELSE /\ accounts' = [accounts EXCEPT !.rows[target] =
                    [email |-> IF data.email # NoEmail THEN data.email ELSE @.email,
                     role |-> IF data.role # NoRole THEN data.role ELSE @.role]]
             /\ req' = [req EXCEPT ![p] =
                    Reply(p, UserResponse("updateUser", target, "ok", "none"))]
    /\ UNCHANGED <<users, questions, embedding, hasColumn, apiKey, nextId, answers>>

\* UserService.updateUserRole(userId, role, currentUserId): the test for
\* the caller's own demotion, then UserRepository.updateRole.
updateUserRole(p) ==
    /\ Free(p)
    /\ \E target \in AllUserIds, role \in Roles, current \in {Admin} :
        IF target = current /\ role = "STUDENT"
        THEN /\ req' = [req EXCEPT ![p] =
                    Reply(p, UserResponse("updateUserRole", target, "error",
                                          "You cannot change your own role to STUDENT"))]
             /\ UNCHANGED accounts
        ELSE IF target \notin users
        THEN /\ req' = [req EXCEPT ![p] =
                    Reply(p, UserResponse("updateUserRole", target, "error", "P2025"))]
             /\ UNCHANGED accounts
        ELSE /\ accounts' = SetRole(target, role)
             /\ req' = [req EXCEPT ![p] =
                    Reply(p, UserResponse("updateUserRole", target, "ok", "none"))]
    /\ UNCHANGED <<users, questions, embedding, hasColumn, apiKey, nextId, answers>>

\* The roles a PUT asks for: the two roles, and a value that is neither.
RoleInputs == Roles \cup {"OTHER"}

\* PUT /api/users/[id] { role }, up to the lookup of the target: the
\* session's user and role, and the role asked for.
putUserRole(p) ==
    /\ Free(p)
    /\ \E caller \in AllUserIds \cup {NoUser}, target \in AllUserIds, role \in RoleInputs :
        req' = [req EXCEPT ![p] =
            IF caller \notin users
            THEN Reply(p, UserResponse("putUserRole", target, "401", "Unauthorized"))
            ELSE IF Role(caller) # "ADMIN"
            THEN Reply(p, UserResponse("putUserRole", target, "403", "Forbidden"))
            ELSE IF role \notin Roles
            THEN Reply(p, UserResponse("putUserRole", target, "400", "Invalid role"))
            ELSE [Idle EXCEPT !.op = "putUserRole", !.pc = "findUnique",
                              !.userId = target, !.caller = caller, !.role = role]]
    /\ UNCHANGED <<users, questions, embedding, hasColumn, apiKey, nextId, answers, accounts>>

\* PUT /api/users/[id], the lookup of the target and the test for the
\* caller's own demotion.
putUserRole_findUnique(p) ==
    LET r == req[p] IN
    /\ r.op = "putUserRole" /\ r.pc = "findUnique"
    /\ req' = [req EXCEPT ![p] =
            IF r.userId \notin users
            THEN Reply(p, UserResponse("putUserRole", r.userId, "404", "User not found"))
            ELSE IF r.userId = r.caller /\ r.role = "STUDENT"
            THEN Reply(p, UserResponse("putUserRole", r.userId, "400",
                                       "You cannot change your own role to STUDENT"))
            ELSE [r EXCEPT !.pc = "update"]]
    /\ UNCHANGED <<users, questions, embedding, hasColumn, apiKey, nextId, answers, accounts>>

\* PUT /api/users/[id], `prisma.user.update`; the catch answers 500.
putUserRole_update(p) ==
    LET r == req[p] IN
    /\ r.op = "putUserRole" /\ r.pc = "update"
    /\ IF r.userId \in users
       THEN /\ accounts' = SetRole(r.userId, r.role)
            /\ req' = [req EXCEPT ![p] =
                        Reply(p, UserResponse("putUserRole", r.userId, "200", "none"))]
       ELSE /\ req' = [req EXCEPT ![p] =
                        Reply(p, UserResponse("putUserRole", r.userId, "500", "P2025"))]
            /\ UNCHANGED accounts
    /\ UNCHANGED <<users, questions, embedding, hasColumn, apiKey, nextId, answers>>

\* ------------------------------------------------------------ environment
\* The schema migration that adds the embedding column (with the pgvector
\* extension) is applied; the rows that exist get a NULL embedding.
MigrateEmbeddingColumn ==
    /\ ~hasColumn
    /\ hasColumn' = TRUE
    /\ req' = Stale(req)
    /\ UNCHANGED <<users, questions, embedding, apiKey, nextId, answers, accounts>>

\* The write paths, with the repository's search.
Next ==
    \/ \E p \in Observed :
        \/ createQuestion(p)
        \/ create_insert(p)
        \/ create_retry(p)
        \/ create_findById(p)
        \/ postQuestion(p)
        \/ postQuestion_insert(p)
        \/ postQuestion_select(p)
        \/ searchByEmbedding(p)
        \/ update(p)
        \/ update_findById(p)
    \/ \E p \in Procs :
        \/ delete(p)
    \/ \E p \in Background :
        \/ deleteUser(p)
        \/ deleteUser_updateMany(p)
        \/ deleteUser_delete(p)
    \/ MigrateEmbeddingColumn

Spec == Init /\ [][Next]_vars

\* The three searches, over a store that the service's create, the
\* repository's delete and the deletion of users write to.
NextSearch ==
    \/ \E p \in Observed :
        \/ createQuestion(p)
        \/ create_insert(p)
        \/ create_retry(p)
        \/ create_findById(p)
        \/ searchByEmbedding(p)
        \/ searchQuestions(p)
        \/ searchRoute(p)
    \/ \E p \in Procs :
        \/ delete(p)
    \/ \E p \in Background :
        \/ deleteUser(p)
        \/ deleteUser_updateMany(p)
        \/ deleteUser_delete(p)
    \/ MigrateEmbeddingColumn

SpecSearch == Init /\ [][NextSearch]_vars

\* The embedding requests, on their own and from inside a create or a search.
NextEmbed ==
    \/ \E p \in Observed :
        \/ embed(p)
        \/ embedRoute(p)
        \/ embedRouteSdk(p)
        \/ createQuestion(p)
        \/ create_insert(p)
        \/ create_retry(p)
        \/ create_findById(p)
        \/ searchQuestions(p)
    \/ MigrateEmbeddingColumn

SpecEmbed == Init /\ [][NextEmbed]_vars

\* A store that earlier creates have filled: SeededQuestions questions of
\* the student, each stored with a vector, in a database that has the
\* embedding column, and a configured provider.
InitSeeded ==
    /\ users = UserIds
    /\ questions = [id \in 1..SeededQuestions |->
                       NewRow(ValidText.title, TypeInput, ValidText.description, Student)]
    /\ embedding = [id \in 1..SeededQuestions |->
                       Some(IF id % 2 = 1 THEN VecA ELSE VecB)]
    /\ hasColumn = TRUE
    /\ apiKey = TRUE
    /\ nextId = SeededQuestions + 1
    /\ answers = NoAnswers
    /\ accounts = FirstAccounts
    /\ req = [p \in Procs |-> Idle]

\* The searches over that store.
NextLimit ==
    \E p \in Observed :
        \/ searchByEmbedding(p)
        \/ searchQuestions(p)
        \/ searchRoute(p)

SpecLimit == InitSeeded /\ [][NextLimit]_vars

\* The writes of title and description: POST with a blank title, and update,
\* while the student's account is deleted and accounts are registered.
NextText ==
    \/ \E p \in Observed :
        \/ postBlankTitle(p)
        \/ postQuestion_insert(p)
        \/ postQuestion_select(p)
        \/ postQuestionPlain(p)
        \/ postQuestionPlain_create(p)
        \/ update(p)
        \/ update_findById(p)
    \/ \E p \in Procs :
        \/ delete(p)
    \/ \E p \in Background :
        \/ deleteUser(p)
        \/ deleteUser_updateMany(p)
        \/ deleteUser_delete(p)
        \/ signup(p)
        \/ signup_create(p)
    \/ MigrateEmbeddingColumn

SpecText == Init /\ [][NextText]_vars

\* Creates by two clients at once.
NextCreate ==
    \/ \E p \in Procs :
        \/ createQuestion(p)
        \/ create_insert(p)
        \/ create_retry(p)
        \/ create_findById(p)
    \/ MigrateEmbeddingColumn

SpecCreate == Init /\ [][NextCreate]_vars

\* Answers given, by two clients, while questions are created and deleted
\* and the student's account is deleted.
NextAnswers ==
    \/ \E p \in Observed :
        \/ createQuestion(p)
        \/ create_insert(p)
        \/ create_retry(p)
        \/ create_findById(p)
        \/ postAnswerJsonb(p)
        \/ postAnswerJsonb_findUnique(p)
        \/ postAnswerJsonb_insert(p)
        \/ postAnswerJsonb_select(p)
    \/ \E p \in Procs :
        \/ createAnswer(p)
        \/ createAnswer_insert(p)
        \/ createAnswer_findById(p)
        \/ postAnswer(p)
        \/ postAnswer_findUnique(p)
        \/ postAnswer_insert(p)
        \/ postAnswer_select(p)
        \/ deleteAnswer(p)
        \/ delete(p)
        \/ deleteAnswerRoute(p)
        \/ deleteAnswerRoute_findUnique(p)
        \/ deleteAnswerRoute_delete(p)
    \/ \E p \in Background :
        \/ deleteUser(p)
        \/ deleteUser_updateMany(p)
        \/ deleteUser_delete(p)

SpecAnswers == Init /\ [][NextAnswers]_vars

\* A store in which every first account has asked a question (without an
\* embedding: the column is not there).
InitOwned ==
    /\ users = UserIds
    /\ questions = [id \in 1..MaxQuestions |->
                       NewRow(ValidText.title, TypeInput, ValidText.description,
                              IF id % 2 = 1 THEN Student ELSE Admin)]
    /\ embedding = [id \in 1..MaxQuestions |-> None]
    /\ hasColumn = FALSE
    /\ apiKey = FALSE
    /\ nextId = MaxQuestions + 1
    /\ answers = NoAnswers
    /\ accounts = FirstAccounts
    /\ req = [p \in Procs |-> Idle]

\* Deletions of users, through the service and through the route, while
\* accounts are created and their roles and emails are changed.
NextUsers ==
    \/ \E p \in Procs :
        \/ deleteUser(p)
        \/ deleteUser_updateMany(p)
        \/ deleteUser_delete(p)
        \/ deleteUserRoute(p)
        \/ deleteUserRoute_findUnique(p)
        \/ deleteUserRoute_updateMany(p)
        \/ deleteUserRoute_delete(p)
    \/ \E p \in Background :
        \/ signupRoute(p)
        \/ signupRoute_create(p)
        \/ createAdminUser(p)
        \/ updateUserRole(p)
        \/ updateUser(p)
        \/ putUserRole(p)
        \/ putUserRole_findUnique(p)
        \/ putUserRole_update(p)

\* The DELETE handler of a question, over questions posted with and without
\* an embedding, with the repository's search, while questions and users are
\* deleted.
NextDelete ==
    \/ \E p \in Observed :
        \/ postQuestionPlain(p)
        \/ postQuestionPlain_create(p)
        \/ postQuestion(p)
        \/ postQuestion_insert(p)
        \/ postQuestion_select(p)
        \/ searchByEmbedding(p)
        \/ deleteRoute(p)
        \/ deleteRoute_findUnique(p)
        \/ deleteRoute_delete(p)
    \/ \E p \in Procs :
        \/ delete(p)
    \/ \E p \in Background :
        \/ deleteUser(p)
        \/ deleteUser_updateMany(p)
        \/ deleteUser_delete(p)
    \/ MigrateEmbeddingColumn

SpecDelete == Init /\ [][NextDelete]_vars

SpecUsers == InitOwned /\ [][NextUsers]_vars

\* ------------------------------------------------------------------ claims
\* The request of client p takes its next step.
Steps(p) == req'[p].pc # req[p].pc

\* The INSERT of request r wrote its row, with the embedding cell `cell`.
Persisted(r, cell) ==
    /\ r.qid \in DOMAIN questions' /\ r.qid \in DOMAIN embedding'
    /\ questions'[r.qid] = NewRow(r.title, r.type, r.description, r.userId)
    /\ embedding'[r.qid] = cell

\* A createQuestion whose embedding attempt failed answers without the
\* provider's error, and fails only on the foreign key of its author.
C1_Response ==
    \A p \in Observed :
        LET r == req[p] IN
        (r.op = "createQuestion" /\ r.pc = "done" /\ r.provider \in ProviderErrors) =>
            /\ r.error \notin ProviderErrors
            /\ r.error \in {"none", "23503"}
            /\ r.error = "none" => (r.status = "ok" /\ r.inserted)

\* The INSERT of such a createQuestion, its author being a user, writes the
\* row with a NULL embedding.
C1_Insert ==
    \A p \in Observed :
        LET r == req[p] IN
        (/\ r.op = "createQuestion" /\ r.pc \in {"insert", "retry"}
         /\ r.provider \in ProviderErrors /\ Steps(p) /\ r.userId \in users) =>
            (req'[p].pc = "findById" /\ Persisted(r, None))

\* C1: whenever the embedding provider fails (not configured, network or
\* upstream error, malformed response), createQuestion of a valid question
\* still inserts the row, with no stored embedding, and answers ok; the
\* provider's error never reaches the caller.  The one failure left is the
\* foreign key, when the author's account was deleted meanwhile.
C1_CreateSurvivesProviderFailure == []C1_Response /\ [][C1_Insert]_vars

\* A createQuestion answered ok after an upstream error, its row stored
\* without an embedding although the column exists.
C1_Witness ==
    \E p \in Observed :
        LET r == req[p] IN
        /\ r.op = "createQuestion" /\ r.pc = "done" /\ r.provider = "UpstreamError"
        /\ r.status = "ok" /\ r.inserted /\ r.result = <<r.qid>>
        /\ hasColumn /\ r.qid \in DOMAIN embedding /\ embedding[r.qid] = None

\* The try block of create, given an embedding while the column is missing,
\* hands over to the catch block; the catch block, the author being a user,
\* writes the row with a NULL embedding.
C2_Insert ==
    \A p \in Observed :
        LET r == req[p] IN
        /\ (/\ r.op = "createQuestion" /\ r.pc = "insert" /\ Steps(p)
             /\ HasEmbedding(r.embedding) /\ ~hasColumn) =>
                (/\ req'[p].pc = "retry" /\ req'[p].caught = "42703"
                 /\ UNCHANGED <<questions, embedding>>)
        /\ (/\ r.op = "createQuestion" /\ r.pc = "retry" /\ Steps(p)
             /\ r.userId \in users) =>
                (req'[p].pc = "findById" /\ Persisted(r, None))

\* A create that caught the missing column does not report it.
C2_Response ==
    \A p \in Observed :
        LET r == req[p] IN
        (r.op = "createQuestion" /\ r.pc = "done" /\ r.caught = "42703") =>
            /\ r.error \in {"none", "23503"}
            /\ r.error = "none" => (r.status = "ok" /\ r.inserted)

\* C2: when QuestionRepository.create is given an embedding and the store
\* has no embedding column (or no vector type), the INSERT is repeated
\* without the embedding: the row is stored with no vector, the question is
\* returned, and the missing capability is not reported to the caller.
C2_CreateDegradesWithoutColumn == []C2_Response /\ [][C2_Insert]_vars

\* A create that was given a 768-vector, caught the missing column and
\* returned the question, stored without a vector.
C2_Witness ==
    \E p \in Observed :
        LET r == req[p] IN
        /\ r.op = "createQuestion" /\ r.pc = "done" /\ r.caught = "42703"
        /\ HasEmbedding(r.embedding) /\ r.status = "ok" /\ r.result = <<r.qid>>
        /\ r.qid \in DOMAIN embedding /\ embedding[r.qid] = None

\* The INSERT of a POST that passed authentication and validation, its
\* caller still being a user, stores the question: when the embedding
\* endpoint failed, and when it answered a 768-vector and the column is
\* missing.
C3_Insert ==
    \A p \in Observed :
        LET r == req[p] IN
        (/\ r.op = "postQuestion" /\ r.pc = "insert" /\ Steps(p)
         /\ r.userId \in users
         /\ \/ r.provider \in ProviderErrors
            \/ r.embedding # None /\ Length(r.embedding[1]) = dimensions /\ ~hasColumn) =>
            /\ req'[p].pc = "select"
            /\ r.qid \in DOMAIN questions'

\* C3: an authenticated POST /api/questions with non-empty title, type and
\* description stores the question whatever the health of the embedding
\* subsystem: when the embedding endpoint fails, and when an embedding was
\* obtained but the store has no embedding column.
C3_PostSurvivesEmbeddingSubsystem == [][C3_Insert]_vars

\* ------------------------------------------------------ claims on search
Range(s) == {s[i] : i \in 1..Len(s)}

SearchOps == {"searchByEmbedding", "searchQuestions", "searchRoute"}

\* The questions that have a stored vector.
Indexed == {id \in DOMAIN embedding : embedding[id] # None}

\* The k of a search: the limit passed, or the operation's default.
EffectiveLimit(r) ==
    IF r.limit # None THEN r.limit[1]
    ELSE IF r.op = "searchRoute" THEN RouteDefaultLimit ELSE DefaultLimit

\* r is the response of a search that returned a result list.
Returned(r) == r.pc = "done" /\ r.op \in SearchOps /\ r.error = "none"

\* C4: for every query vector and limit k, in every reachable store state, a
\* search (repository, service or route) returns at most k questions, and
\* none of them is a question whose stored vector is NULL.
C4_AtMostKAndNoNullVector ==
    \A p \in Observed :
        LET r == req[p] IN
        Returned(r) =>
            /\ Len(r.result) <= EffectiveLimit(r)
            /\ r.fresh => Range(r.result) \subseteq Indexed

\* A search with limit 1 over two indexed questions returned one of them.
C4_Witness ==
    \E p \in Observed :
        LET r == req[p] IN
        /\ Returned(r) /\ r.fresh /\ r.op = "searchByEmbedding"
        /\ r.limit = Some(1) /\ Len(r.result) = 1
        /\ Cardinality(Indexed) = 2

\* C5: searchByEmbedding(v, k) returns the min(k, n) questions closest to v
\* among the n that have a stored vector, in ascending order of distance:
\* no indexed question left out is strictly closer than a returned one, and
\* with k >= n every indexed question is returned.
C5_NearestInAscendingOrder ==
    \A p \in Observed :
        LET r == req[p]
            res == r.result
        IN
        (Returned(r) /\ r.fresh /\ r.op = "searchByEmbedding") =>
            /\ Len(res) = Min(EffectiveLimit(r), Cardinality(Indexed))
            /\ Range(res) \subseteq Indexed
            /\ \A i, j \in 1..Len(res) : i < j =>
                    /\ res[i] # res[j]
                    /\ Distance(res[i], r.vec) <= Distance(res[j], r.vec)
            /\ \A id \in Indexed \ Range(res) : \A i \in 1..Len(res) :
                    Distance(id, r.vec) >= Distance(res[i], r.vec)

\* A search without a limit over two indexed questions at different
\* distances returned both, the closer one first.
C5_Witness ==
    \E p \in Observed :
        LET r == req[p] IN
        /\ Returned(r) /\ r.fresh /\ r.op = "searchByEmbedding"
        /\ r.limit = None /\ Len(r.result) = 2 /\ Range(r.result) = Indexed
        /\ Distance(r.result[1], r.vec) < Distance(r.result[2], r.vec)

\* The delete of question id has completed.
Deleted(id) ==
    \E p \in Observed :
        LET r == req[p] IN
        /\ r.pc = "done" /\ r.qid = id
        /\ \/ r.op = "delete" /\ r.status = "ok"
           \/ r.op = "deleteRoute" /\ r.status = "200"

\* No row, no vector and no search result of the current store holds id.
Gone(id) ==
    /\ id \notin DOMAIN questions
    /\ id \notin DOMAIN embedding
    /\ \A p \in Observed :
          (Returned(req[p]) /\ req[p].fresh) => id \notin Range(req[p].result)

\* C6: a question's row and its vector are deleted in one step: no state
\* has a row without its embedding cell or a cell without its row, and once
\* delete(id) has completed, no row or vector keyed by id exists and no
\* later searchByEmbedding returns id.
C6_RowAndVectorDeletedTogether ==
    /\ [](DOMAIN embedding = DOMAIN questions)
    /\ \A id \in QuestionIds : [](Deleted(id) => []Gone(id))

\* DELETE /api/questions/[id] answered 200 while another question, with a
\* stored vector, remains.
C6_Witness ==
    \E p \in Observed :
        LET r == req[p] IN
        /\ r.op = "deleteRoute" /\ r.pc = "done" /\ r.status = "200"
        /\ r.qid \notin DOMAIN questions
        /\ Indexed # {}

\* A step keeps the embedding cell of every question it keeps.
C7_Fixed ==
    \A id \in DOMAIN questions \cap DOMAIN questions' :
        /\ id \in DOMAIN embedding /\ id \in DOMAIN embedding'
        /\ embedding'[id] = embedding[id]

\* Question id is stored without a vector.
Unindexed(id) == id \in DOMAIN embedding /\ embedding[id] = None

\* No search response holds id.
NotReturned(id) ==
    \A p \in Observed :
        (req[p].pc = "done" /\ req[p].op \in SearchOps) => id \notin Range(req[p].result)

\* C7: whether a question has a stored vector, and which, is fixed when it
\* is created: under create, update, search, question delete and user
\* delete (and the migration of the column), a question stored without a
\* vector never acquires one, a question stored with a vector never loses
\* or changes it, and a question stored without a vector is returned by no
\* later search.
C7_VectorFixedAtCreation ==
    /\ [][C7_Fixed]_vars
    /\ \A id \in QuestionIds : [](Unindexed(id) => []NotReturned(id))

\* A question created before the column existed, edited since, is left out
\* of a search that returns the other question.
C7_Witness ==
    \E p \in Observed : \E id, other \in DOMAIN questions :
        LET r == req[p] IN
        /\ Unindexed(id) /\ questions[id].title = <<98>>
        /\ other \in Indexed
        /\ Returned(r) /\ r.fresh /\ r.op = "searchByEmbedding"
        /\ r.result = <<other>>

\* update(id, data) by client p leaves the embedding column, the set of
\* rows, every other row and the owner alone, and sets exactly the fields
\* that data supplies.
C8_Frame ==
    \A p \in Observed, id \in QuestionIds, data \in UpdateInputs :
        updateWith(p, id, data) =>
            /\ embedding' = embedding
            /\ DOMAIN questions' = DOMAIN questions
            /\ \A j \in DOMAIN questions : j # id => questions'[j] = questions[j]
            /\ id \in DOMAIN questions =>
                  /\ questions'[id].userId = questions[id].userId
                  /\ \A f \in {"title", "type", "description"} :
                        questions'[id][f] =
                            IF data[f] # <<>> THEN data[f] ELSE questions[id][f]

\* C8: update(id, data) never touches the stored embedding: it changes only
\* those of title, type and description that are supplied, and leaves the
\* embedding, the owner and every other question unchanged.
C8_UpdateLeavesEmbedding == [][C8_Frame]_vars

\* An update answered ok that set the title of a question with a stored
\* vector, next to another question.
C8_Witness ==
    \E p \in Observed : \E other \in DOMAIN questions :
        LET r == req[p] IN
        /\ r.op = "update" /\ r.pc = "done" /\ r.status = "ok"
        /\ r.qid \in Indexed /\ other # r.qid
        /\ questions[r.qid].title = <<98>>
        /\ questions[r.qid].description = <<100>>

\* C9: searchQuestions(text, k) called twice in a row, the text embedded to
\* the same vector and no write in between, returns the same ordered list
\* of ids, also when stored vectors are at equal distance from the query.
C9_RepeatedSearchAgrees ==
    \A p \in Observed :
        LET r == req[p] IN
        (Returned(r) /\ r.op = "searchQuestions" /\ r.repeatOf # None) =>
            r.result = r.repeatOf[1]

\* C10: when the embedding of the query fails (provider not configured,
\* network or upstream error, malformed response), searchQuestions and the
\* search route fail with that error: no nearest-neighbour query is sent to
\* the store and no result list is returned in its place.
C10_SearchFailsWithProvider ==
    \A p \in Observed :
        LET r == req[p] IN
        (r.pc = "done" /\ r.op \in {"searchQuestions", "searchRoute"}
            /\ r.provider \in ProviderErrors) =>
            /\ r.error = r.provider
            /\ r.status = (IF r.op = "searchRoute" THEN "500" ELSE "error")
            /\ r.nn = 0
            /\ r.result = <<>>

\* The search route answered 500 to an upstream error while the store held
\* an indexed question.
C10_Witness ==
    \E p \in Observed :
        LET r == req[p] IN
        /\ r.pc = "done" /\ r.op = "searchRoute" /\ r.provider = "UpstreamError"
        /\ r.status = "500" /\ r.fresh
        /\ hasColumn /\ Indexed # {}

\* C11: for every empty or whitespace-only query text, with or without an
\* API key, searchQuestions and the search route fail with the invalid-input
\* error, and make neither a request to the embedding model nor a query to
\* the store.
C11_BlankQueryIsInvalidInput ==
    \A p \in Observed :
        LET r == req[p] IN
        (/\ r.pc = "done" /\ r.op \in {"searchQuestions", "searchRoute"}
         /\ ~Truthy(trim(r.query))) =>
            /\ r.error = "InvalidInput"
            /\ r.calls = 0
            /\ r.nn = 0

\* C12: a search with a non-empty query that was embedded to a 768-vector,
\* over a store in which no question has a stored vector (a store into
\* which no vector was ever written included), answers the empty list, not
\* an error.
C12_SearchOfUnindexedStoreIsEmpty ==
    \A p \in Observed :
        LET r == req[p] IN
        (/\ r.pc = "done" /\ r.op \in SearchOps /\ r.fresh
         /\ Length(r.vec) = dimensions /\ Indexed = {}) =>
            (r.error = "none" /\ r.result = <<>>)

\* C13: within one creation (createQuestion, POST /api/questions) the row
\* is written before the embedding is attempted: once the request to the
\* embedding model has been made, the row exists, and a create that stops
\* there leaves the row, without an embedding.
C13_RowWrittenBeforeEmbedding ==
    \A p \in Observed :
        LET r == req[p] IN
        (/\ r.op \in {"createQuestion", "postQuestion"}
         /\ r.pc \in {"insert", "retry"} /\ r.calls > 0) =>
            r.qid \in DOMAIN questions

\* C14: every stored embedding is absent or has exactly `dimensions`
\* components, and whatever vector the provider returned (shorter, equal or
\* longer), createQuestion succeeds: the only failure left to it is the
\* foreign key of an author deleted meanwhile.
C14_StoredVectorsHaveDimension ==
    /\ \A id \in DOMAIN embedding :
          embedding[id] = None \/ Length(embedding[id][1]) = dimensions
    /\ \A p \in Observed :
          LET r == req[p] IN
          (r.op = "createQuestion" /\ r.pc = "done" /\ r.embedding # None) =>
              r.error \in {"none", "23503"}

\* The direct embedding requests, and the last answer the model gave to one.
EmbedOps == {"embed", "embedRoute", "embedRouteSdk"}
LastAnswer(r) == r.answers[Len(r.answers)]

\* C15: when the provider returns a vector whose length is not `dimensions`,
\* embed returns exactly its first `dimensions` components if it is longer,
\* and fails with a dimension-mismatch error, returning no vector, if it is
\* strictly shorter.
C15_ShorterVectorIsDimensionMismatch ==
    \A p \in Observed :
        LET r == req[p] IN
        (/\ r.pc = "done" /\ r.op \in EmbedOps /\ r.answers # <<>>
         /\ LastAnswer(r).kind = "nested") =>
            LET v == LastAnswer(r).values IN
            /\ Length(v) > dimensions =>
                  (r.error = "none" /\ r.embedding = Some(slice(v, dimensions)))
            /\ Length(v) < dimensions =>
                  (r.error = "DimensionMismatch" /\ r.embedding = None)

\* C16: an embedding request that passes its configuration and input checks
\* makes exactly one call to the embedding model, whether the call succeeds
\* or fails (no retry, no fallback call), and a create or a search makes at
\* most one embedding request.
C16_OneOutboundCall ==
    \A p \in Observed :
        LET r == req[p] IN
        /\ (/\ r.pc = "done" /\ r.op \in EmbedOps
            /\ r.error \notin {"NotConfigured", "InvalidInput"}) => r.calls = 1
        /\ r.op \in {"createQuestion", "searchQuestions"} => r.calls <= 1

\* C17: without GEMINI_API_KEY every embedding request fails with the
\* not-configured error, having made no call to the model (none to retry),
\* on its own and inside a create or a search.
C17_NotConfiguredMakesNoCall ==
    \A p \in Observed :
        LET r == req[p] IN
        (r.pc = "done" /\ ~apiKey) =>
            /\ r.op \in EmbedOps =>
                  /\ r.error = "NotConfigured" /\ r.calls = 0
                  /\ r.answers = <<>> /\ r.embedding = None
            /\ r.op \in {"createQuestion", "searchQuestions"} =>
                  (r.provider = "NotConfigured" /\ r.calls = 0)

\* A valid text was sent to generateEmbedding without a key, and it failed
\* with the not-configured error.
C17_Witness ==
    \E p \in Observed :
        /\ ~apiKey /\ req[p].pc = "done" /\ req[p].op = "embed"
        /\ Truthy(trim(req[p].query))
        /\ req[p].error = "NotConfigured" /\ req[p].calls = 0

\* Question id is among the k nearest to v whatever the order of ties: fewer
\* than k other indexed questions are as near or nearer.
AmongNearest(id, v, k) ==
    Cardinality({j \in Indexed \ {id} : Distance(j, v) <= Distance(id, v)}) < k

\* C18: on every search entry point, a question with a stored vector whose
\* owner has been deleted (a null owner) is returned whenever it is among
\* the k nearest: eligibility does not depend on the owner.
C18_OwnerlessQuestionIsSearchable ==
    \A p \in Observed :
        LET r == req[p] IN
        (Returned(r) /\ r.fresh) =>
            \A id \in Indexed :
                (/\ questions[id].userId = NoUser
                 /\ AmongNearest(id, r.vec, EffectiveLimit(r))) =>
                    id \in Range(r.result)

\* Client p's deleteUser takes a step: the updateMany, or the DELETE of the
\* user row.
DeleteUserStep(p) ==
    /\ req[p].op = "deleteUser" /\ req[p].pc \in {"updateMany", "delete"}
    /\ req'[p] # req[p]

\* The user a step of deleteUser by p is deleting.
DeleteUserTarget(p) == req[p].userId

\* The step in which deleteUser by p makes its checks.
DeleteUserChecks(p) ==
    Free(p) /\ req'[p] # req[p] /\ req'[p].op = "deleteUser"

\* The checks of deleteUser write nothing; its updateMany and its DELETE
\* remove no question and touch no vector: the rows are as before but for
\* the owner of the target's questions, now null.
C19_Step ==
    \A p \in Procs :
        /\ DeleteUserChecks(p) => UNCHANGED <<users, questions, embedding>>
        /\ DeleteUserStep(p) =>
            /\ DOMAIN questions' = DOMAIN questions
            /\ embedding' = embedding
            /\ \A id \in DOMAIN questions :
                  questions'[id] =
                      IF questions[id].userId = DeleteUserTarget(p)
                      THEN [questions[id] EXCEPT !.userId = NoUser]
                      ELSE questions[id]

\* No question refers to a user that does not exist.
C19_NoDanglingOwner ==
    \A id \in DOMAIN questions : questions[id].userId \in users \cup {NoUser}

\* C19: deleting a user never deletes a question: under every interleaving
\* with creations by that user, each step of deleteUser(u) keeps every
\* question and every vector, the questions of u get a null owner, and no
\* question ever refers to a user that no longer exists.
C19_QuestionsSurviveTheirOwner ==
    []C19_NoDanglingOwner /\ [][C19_Step]_vars

\* A create by the student answered after the student was deleted by another
\* client: the question is there, indexed, with a null owner.
C19_Witness ==
    \E p \in Observed :
        LET r == req[p] IN
        /\ r.pc = "done" /\ r.op = "createQuestion" /\ r.error = "none"
        /\ r.userId = Student /\ Student \notin users
        /\ r.qid \in DOMAIN questions
        /\ questions[r.qid].userId = NoUser
        /\ embedding[r.qid] # None

\* C20: a search called without a limit returns at most 3 questions, on
\* every entry point (searchByEmbedding, searchQuestions, the search route
\* given only a query), and a limit the caller passes replaces the default.
C20_DefaultLimitIsThree ==
    \A p \in Observed :
        LET r == req[p] IN
        Returned(r) =>
            Len(r.result) <= IF r.limit = None THEN DefaultLimit ELSE r.limit[1]

\* C21: every stored question has a non-empty title and a non-empty
\* description, after any creations (repository, POST route) and updates,
\* whatever the inputs, blank strings included.
C21_TitleAndDescriptionNonEmpty ==
    \A id \in DOMAIN questions :
        Truthy(questions[id].title) /\ Truthy(questions[id].description)

\* Client p has a create in flight that has not inserted yet.
Creating(p) == req[p].op = "createQuestion" /\ req[p].pc \in {"insert", "retry"}

\* A step of a create by p: the successful INSERT writes one new row under
\* the call's own id, with the call's own fields and vector (no vector on
\* the retry), and every other step of the call writes nothing.
C22_Step ==
    \A p \in Procs :
        LET r == req[p] IN
        /\ (Creating(p) /\ req'[p].pc = "findById") =>
              /\ r.qid \notin DOMAIN questions
              /\ questions' = Put(questions, r.qid,
                                  NewRow(r.title, r.type, r.description, r.userId))
              /\ embedding' = Put(embedding, r.qid,
                                  IF r.pc = "insert" /\ HasEmbedding(r.embedding)
                                  THEN r.embedding ELSE None)
        /\ (/\ r.op = "createQuestion" /\ r.pc \in {"insert", "retry", "findById"}
            /\ req'[p].pc \notin {r.pc, "findById"}) =>
              UNCHANGED <<questions, embedding>>

\* Creates in flight have ids of their own, not yet in the table.
C22_FreshIds ==
    \A p \in Procs :
        Creating(p) =>
            /\ req[p].qid \notin DOMAIN questions
            /\ \A q \in Procs \ {p} :
                  req[q].op = "createQuestion" /\ req[q].pc # "done" =>
                      req[q].qid # req[p].qid

\* C22: under every interleaving of concurrent creates, each successful
\* create persists exactly one row under its own fresh id, with the
\* embedding of its own text; no create's embedding lands on another's row
\* and no row is lost or overwritten.
C22_ConcurrentCreatesDoNotContend ==
    []C22_FreshIds /\ [][C22_Step]_vars

\* Two creates overlapped: the second client's started first and is still
\* to read its row back, the first client's has answered; both rows are
\* stored, each with its own vector, and the vectors differ.
C22_Witness ==
    LET a == req["p1"]
        b == req["p2"]
    IN /\ a.op = "createQuestion" /\ a.pc = "done" /\ a.error = "none"
       /\ b.op = "createQuestion" /\ b.pc = "findById"
       /\ b.qid < a.qid
       /\ a.embedding # None /\ b.embedding # None /\ a.embedding # b.embedding
       /\ embedding[a.qid] = a.embedding /\ embedding[b.qid] = b.embedding

\* Client p receives the response of a search in this step.
SearchStep(p) ==
    /\ Free(p) /\ req'[p] # req[p]
    /\ req'[p].pc = "done" /\ req'[p].op \in SearchOps /\ req'[p].fresh

\* A search writes nothing.
C23_Frame ==
    \A p \in Observed :
        SearchStep(p) => UNCHANGED <<users, questions, embedding, hasColumn, nextId>>

\* The response of a search is one the store and the query vector permit,
\* whatever was asked before: the failure of the query, or a list of the
\* nearest rows.
C23_FromStoreAndVector ==
    \A p \in Observed :
        LET r == req[p]
            rows == RankedRows(r.op = "searchRoute")
        IN (/\ r.pc = "done" /\ r.op \in SearchOps /\ r.fresh
            /\ r.provider = "none" /\ r.error # "InvalidInput") =>
               /\ r.error = QueryError(rows, r.vec, EffectiveLimit(r))
               /\ r.nn = QueriesSent(r.vec)
               /\ r.error = "none" =>
                     r.result \in {Limit(s, EffectiveLimit(r)) : s \in OrderBy(rows, r.vec)}

\* C23: a search, successful or failed, leaves the store unchanged and keeps
\* nothing that a later call could see: its response is determined by the
\* store at query time and the query vector.
C23_SearchIsReadOnlyAndStateless ==
    []C23_FromStoreAndVector /\ [][C23_Frame]_vars

\* A search with limit 1 over a store of two indexed questions has answered
\* with one of them, and the store is as it was.
C23_Witness ==
    \E p \in Observed :
        LET r == req[p] IN
        /\ r.pc = "done" /\ r.op \in SearchOps /\ r.fresh /\ r.error = "none"
        /\ r.limit = Some(1) /\ Len(r.result) = 1
        /\ Cardinality(Indexed) > 1

\* The error of the INSERT that client p's create is about to issue.
NextInsertError(p) ==
    LET r == req[p] IN
    IF r.pc = "insert" /\ HasEmbedding(r.embedding)
    THEN InsertWithEmbeddingError(hasColumn, users, r.userId, r.embedding[1])
    ELSE InsertPlainError(users, r.userId)

\* A step of QuestionRepository.create by p: the first INSERT is repeated
\* without the vector only after the missing-column failure; any other
\* failure, of the first INSERT or of the repeated one, is thrown and
\* nothing is written; the repeated INSERT is never repeated.
C24_Step ==
    \A p \in Observed :
        LET r == req[p]
            err == NextInsertError(p)
        IN (Creating(p) /\ req'[p].pc # r.pc) =>
            /\ req'[p].pc = "retry" <=> (r.pc = "insert" /\ err = "42703")
            /\ req'[p].pc = "findById" <=> err = "none"
            /\ err # "none" => UNCHANGED <<questions, embedding>>
            /\ (err # "none" /\ req'[p].pc # "retry") =>
                  (req'[p].pc = "done" /\ req'[p].error = err)

\* A create that failed left no row, and the only failure the catch block
\* handles is the missing column.
C24_Response ==
    \A p \in Observed :
        LET r == req[p] IN
        (r.op = "createQuestion" /\ r.pc = "done") =>
            /\ r.caught \in {"none", "42703"}
            /\ r.error # "none" => r.qid \notin DOMAIN questions

\* C24: create repeats the INSERT without the vector only when the first
\* INSERT failed with the unknown-column failure, at most once; every
\* other failure of either INSERT reaches the caller and leaves no row.
C24_RetryOnlyOnMissingColumn ==
    []C24_Response /\ [][C24_Step]_vars

\* The first INSERT met the missing column, the repeated one the foreign
\* key of an author deleted meanwhile: the create failed with the latter.
C24_Witness ==
    \E p \in Observed :
        LET r == req[p] IN
        /\ r.op = "createQuestion" /\ r.pc = "done"
        /\ r.caught = "42703" /\ r.error = "23503"
        /\ r.qid \notin DOMAIN questions

\* C25: embed returns a vector only when the provider answered with a
\* success status and an array of numbers under `embedding` or
\* `embedding.values`; a non-2xx status, a missing or non-array field, or
\* an array with a component that is not a number makes the call fail and
\* return no vector.
C25_OnlyNumericArraysAreVectors ==
    \A p \in Observed :
        LET r == req[p] IN
        (r.pc = "done" /\ r.op \in EmbedOps) =>
            /\ r.embedding # None =>
                  (r.answers # <<>> /\ LastAnswer(r).kind \in {"direct", "nested"})
            /\ (/\ r.answers # <<>>
                /\ LastAnswer(r).kind \in
                      {"not_ok", "no_field", "non_array", "nested_text"}) =>
                  (r.error # "none" /\ r.embedding = None)

\* C26: when POST /api/questions answers with an error status, the request
\* persisted no row: under every interleaving with other requests (the
\* deletion of the posting user between the INSERT and the read-back
\* included), a row stored under the request's id implies a 201.
C26_PersistedRowImplies201 ==
    \A p \in Observed :
        LET r == req[p] IN
        (r.op = "postQuestion" /\ r.pc = "done" /\ r.qid \in DOMAIN questions) =>
            r.status = "201"

\* C27: whenever QuestionRepository.create returns without throwing, what
\* it returns is the question it inserted, not null, even when a delete of
\* that question or of its owner comes between the INSERT and the
\* read-back by findById.
C27_CreateReturnsItsRow ==
    \A p \in Observed :
        LET r == req[p] IN
        (r.op = "createQuestion" /\ r.pc = "done" /\ r.error = "none") =>
            r.result = <<r.qid>>

\* Client p's DELETE handler reads its session, looks the question up, and
\* issues its DELETE statement, in this step.
DeleteRouteSession(p) ==
    Free(p) /\ req'[p].op = "deleteRoute" /\ req'[p] # req[p]
DeleteRouteLookup(p) ==
    req[p].op = "deleteRoute" /\ req[p].pc = "findUnique" /\ req'[p] # req[p]
DeleteRouteRemoval(p) ==
    req[p].op = "deleteRoute" /\ req[p].pc = "delete" /\ req'[p].pc # "delete"

\* The handler goes on past its session check only for an existing user,
\* and answers 401 otherwise.  Its other checks are made when it looks the
\* question up: it goes on to its DELETE statement only for a requester who
\* is then the owner, answers 404 for a question missing then and 403
\* otherwise.  Neither step writes; the DELETE statement removes that
\* question and nothing else.
C28_Step ==
    \A p \in Observed :
        LET r == req[p]
            n == req'[p]
        IN
        /\ DeleteRouteSession(p) =>
              /\ UNCHANGED <<users, questions, embedding>>
              /\ n.pc = "findUnique" => n.userId \in users
              /\ n.pc # "findUnique" => (n.pc = "done" /\ n.status = "401")
        /\ DeleteRouteLookup(p) =>
              /\ UNCHANGED <<users, questions, embedding>>
              /\ n.pc = "delete" =>
                    /\ r.qid \in DOMAIN questions
                    /\ questions[r.qid].userId = r.userId
                    /\ n.qid = r.qid /\ n.userId = r.userId
              /\ n.pc # "delete" => (n.pc = "done" /\ n.status \in {"403", "404"})
              /\ (n.pc = "done" /\ n.status = "404") => r.qid \notin DOMAIN questions
              /\ (n.pc = "done" /\ n.status = "403") =>
                    (r.qid \in DOMAIN questions /\ questions[r.qid].userId # r.userId)
        /\ DeleteRouteRemoval(p) =>
              /\ questions' = [id \in DOMAIN questions \ {r.qid} |-> questions[id]]
              /\ n.status = IF r.qid \in DOMAIN questions THEN "200" ELSE "500"

\* C28: the DELETE handler removes the row only for a requester who is
\* authenticated and the question's current owner when the handler looks
\* the question up; for an unauthenticated requester, a non-owner or a
\* missing question it answers 401, 403 or 404 and leaves every question
\* unchanged.
C28_RemovesOnlyForOwnerAtLookup == [][C28_Step]_vars

\* The handler has removed the question of its requester.
C28_Witness ==
    \E p \in Observed :
        /\ req[p].op = "deleteRoute" /\ req[p].pc = "done"
        /\ req[p].status = "200" /\ req[p].qid \notin DOMAIN questions

\* Client p's createAnswer, or its POST answers, looks the question up in
\* this step.
AnswerLookup(p) ==
    /\ req'[p] # req[p]
    /\ \/ Free(p) /\ req'[p].op = "createAnswer"
       \/ req[p].op \in AnswerPosts /\ req[p].pc = "findUnique"

\* The question it looks up.
AnswerLookupId(p) ==
    IF req[p].op \in AnswerPosts /\ req[p].pc = "findUnique"
    THEN req[p].qid ELSE req'[p].qid

\* The lookup creates nothing, and for a missing question the request ends
\* there with 'Question not found'.
C29_Step ==
    \A p \in Procs :
        LET n == req'[p] IN
        (AnswerLookup(p) /\ AnswerLookupId(p) \notin DOMAIN questions) =>
            /\ UNCHANGED answers
            /\ n.pc # "insert"
            /\ p \in Observed =>
                  (n.pc = "done" /\ n.error = "Question not found")

\* Every answer refers to a question that exists.
C29_NoOrphanAnswer ==
    \A a \in DOMAIN answers.rows : answers.rows[a].questionId \in DOMAIN questions

C29_KeyedStoreHasNoOrphan ==
    [](answers.fk \in {"cascade", "restrict"} => C29_NoOrphanAnswer)

\* The requests for the deletion of a user; the step in which client p's
\* request makes its first checks, and the step in which the route looks
\* its target up.
UserDeleteOps == {"deleteUser", "deleteUserRoute"}
UserDeleteChecks(p) ==
    Free(p) /\ req'[p] # req[p] /\ req'[p].op \in UserDeleteOps
UserDeleteLookup(p) ==
    req[p].op = "deleteUserRoute" /\ req[p].pc = "findUnique" /\ req'[p] # req[p]

\* C30 as stated: a request to delete the requester's own account always
\* fails with 'You cannot delete your own account', a request for a user
\* that does not exist fails with 'User not found', and neither changes a
\* user or a question.
C30_Original ==
    \A p \in Observed :
        LET r == req[p]
            n == req'[p]
        IN
        /\ UserDeleteChecks(p) =>
            /\ n.caller = n.userId =>
                  /\ n.pc = "done"
                  /\ n.error = "You cannot delete your own account"
                  /\ UNCHANGED <<users, questions>>
            /\ (n.caller # n.userId /\ n.userId \notin users /\ n.pc = "done") =>
                  /\ n.error = "User not found"
                  /\ UNCHANGED <<users, questions>>
        /\ (UserDeleteLookup(p) /\ r.userId \notin users) =>
            /\ n.pc = "done" /\ n.error = "User not found"
            /\ UNCHANGED <<users, questions>>

C30_OwnAccountAlwaysRefused == [][C30_Original]_vars

\* The route answers 401 without a session user and 403 to a user who is no
\* administrator before it looks at the target.
Refusal(n) ==
    IF n.op = "deleteUserRoute" /\ n.caller \notin users THEN "Unauthorized"
    ELSE IF n.op = "deleteUserRoute" /\ Role(n.caller) # "ADMIN" THEN "Forbidden"
    ELSE "none"

C30_Step ==
    \A p \in Observed :
        LET r == req[p]
            n == req'[p]
        IN
        /\ UserDeleteChecks(p) =>
            /\ UNCHANGED <<users, questions, accounts>>
            /\ Refusal(n) # "none" => (n.pc = "done" /\ n.error = Refusal(n))
            /\ (Refusal(n) = "none" /\ n.caller = n.userId) =>
                  /\ n.pc = "done"
                  /\ n.error = "You cannot delete your own account"
            /\ (/\ Refusal(n) = "none" /\ n.caller # n.userId
                /\ n.op = "deleteUser" /\ n.userId \notin users) =>
                  (n.pc = "done" /\ n.error = "User not found")
        /\ UserDeleteLookup(p) =>
            /\ UNCHANGED <<users, questions, accounts>>
            /\ r.userId \notin users =>
                  (n.pc = "done" /\ n.status = "404" /\ n.error = "User not found")
            /\ r.userId \in users => n.pc = "updateMany"

\* C30 (amended): a user-deletion request that the route does not refuse
\* for want of a session (401) or of the administrator role (403) fails
\* with 'You cannot delete your own account' when its target is the
\* requester's own account, and with 'User not found' when its target does
\* not exist at the lookup; the refused requests and these two change no
\* user and no question.
C30_OwnAccountRefusedAfterAuthorization == [][C30_Step]_vars

\* The administrator asked the route to delete the administrator's account
\* and was refused.
C30_Witness ==
    \E p \in Observed :
        LET r == req[p] IN
        /\ r.op = "deleteUserRoute" /\ r.pc = "done"
        /\ r.caller = Admin /\ r.userId = Admin
        /\ r.status = "400" /\ r.error = "You cannot delete your own account"
        /\ Admin \in users
====
